---- MODULE Spec2Model ----
(***************************************************************************)
(* SDARS web client: the risk card and map marker computations, the map    *)
(* and dashboard loaders, the zones page, the alerts page and the alert    *)
(* notification system, together with the alert dispatcher they talk to.   *)
(* Each page is one specification over its own group of variables; the     *)
(* variables of the other pages stay at their initial values.              *)
(***************************************************************************)
EXTENDS Integers, Sequences, FiniteSets, TLC

VARIABLES
    \* ---- prediction page, risk card (prediction.js updateRiskCard)
    riskData,        \* the assessment handed to updateRiskCard
    cardBars,        \* the breakdown values shown: [shown, sat, weather]
    \* ---- map page, marker risk class (part_002 getMaxRisk)
    prediction,      \* the prediction handed to getMaxRisk
    markerRisk,      \* the class computed for it, or NotShown
    \* ---- map page (part_002 loadAllLocations, addLocationMarker, refreshMap)
    mapPc,           \* per load: where loadAllLocations stands
    fetchResult,     \* per load and monitored location: what its fetch did
    markers,         \* markers[name]: the marker recorded under that name
    mapStats,        \* the counters updateMapStatistics shows
    mapOverlap,        \* history, per load: "refreshed" once refreshMap ran during it, "earlier"
                       \* when an earlier load was fetching at its start, else "none"
    \* ---- dashboard (satellite.js loadMonitoredRegions)
    dashPc,          \* where loadMonitoredRegions stands
    dashIdx,         \* the location the for loop is at
    predOutcome,     \* per location: what its own prediction request did
    gridCards,       \* the cards in liveLocationsGrid, in order
    \* ---- zones page (prediction.js saveZone, cancelZone, loadZones)
    srvZones,        \* the zones the server stores, in creation order
    zones,           \* zonesState.zones
    zoneLayers,      \* the zone ids that have a polygon in drawnItems
    draftLayers,     \* the drawn, unsaved polygons in drawnItems
    currentZone,     \* zonesState.currentZone: a draft polygon or NoDraft
    zoneForm,        \* the form: [visible, zoneName, recipientEmails]
    saveBtn,         \* the save button: [disabled, label]
    lastToast,       \* the last message shown by showSuccess / showError
    savePc,          \* where the running saveZone stands
    saveReq,         \* its create request and the verification it brought
    initLoad,        \* the loadZones call of initZonesPage
    saveLoad,        \* the loadZones call of the running saveZone
    \* ---- alerts page (prediction.js loadAlerts, acknowledgeAlertFromPage)
    srvAlerts,       \* the server's alerts: srvAlerts[id] is the alert's state
    targetZone,      \* the zone of the URL (?zone=..&zoneId=..) or NoTarget
    pgZones,         \* alertsPageState.zones
    pgAllZoneNames,  \* alertsPageState.allZoneNames
    pgActive,        \* alertsPageState.activeAlerts (alert ids)
    pgHistory,       \* alertsPageState.alertHistory (alert ids)
    pgAllAlerts,     \* alertsPageState.allAlerts (alert ids)
    pgPredictions,   \* alertsPageState.predictions
    pgToast,         \* the last message shown on the alerts page
    loads,           \* the running loadAlerts calls and their four fetches
    ackReq,          \* the acknowledge request of acknowledgeAlertFromPage
    \* ---- alert notifications (alert-system.js)
    alertPc,         \* "start" until initAlertSystem has run
    activeAlerts,    \* alertState.activeAlerts (alert ids)
    alertCards,      \* alertCards[id]: the cards of the alert in #alertContainer
    dismissing,      \* dismissing[id]: the cards of the alert on their way out, its first ones
    alertModal,      \* the alert whose details #alertModal shows, or 0
    notifications,   \* notifications[id]: the sounds and browser notifications
    alertPolls,      \* the GET /alerts/active requests in flight
    alertAcks,       \* the POST /alerts/acknowledge requests in flight
    alertToast,      \* the last message shown by showSuccess / showError
    hasToasts,       \* typeof showSuccess === 'function' on this page
    ackedOk,         \* history: ackedOk[id] counts the acknowledgeAlert(id) that succeeded
    \* ---- AlertDispatcher (backend, from its specification)
    alerts,          \* the alerts created so far: [key, state]
    keyLock,         \* keyLock[key]: the tick that holds the key's lock, or 0
    ticks,           \* ticks[t]: a monitor tick's position, key and outcome
    \* ---- promoting a prediction, alert details (prediction.js)
    promoPred,       \* the prediction of the card whose button is clicked
    promoReq,        \* the POST /auth/promote-alert request and its payload
    promoAlert,      \* the alert of alertsPageState.allAlerts that is viewed
    promoShown,      \* the probability shown in the modal, in tenths of a percent
    promoToast,      \* the last message shown about the predictions list
    promoCard,       \* the card of the prediction is on the page
    \* ---- prediction page (prediction.js runPrediction, fillPredictionInputs)
    pdLatLon,        \* the latitude and longitude inputs: a location, or 0 when empty
    pdNameInput,     \* the locationName input
    pdSearchInput,   \* the predictionSearchInput input
    pdLastSelected,  \* the location the user selected last, 0 before any
    pdCalls,         \* the fillPredictionInputs / runPrediction calls that are waiting
    pdReport,        \* the report in #results: its name and whose assessments
    pdView,          \* which of #loading and #results is visible
    pdLastDone,      \* history: how the call of the last selection ended
    pdEdited,        \* history: coordinates were typed since the last selection
    pdTyped,         \* how often the user has typed into an input
    \* ---- zones page, deleteZone (prediction.js)
    delReq,          \* delReq[id]: the DELETE /zones/{id} request of deleteZone(id)
    \* ---- zones page, the tool buttons (prediction.js)
    editMode,        \* zonesState.editMode
    deleteMode,      \* zonesState.deleteMode
    currentLayerName,  \* zonesState.currentLayerName
    hasGeolocation,  \* navigator.geolocation is there in this browser
    \* ---- alerts page, testAlert and saveSettings (prediction.js)
    testReq,         \* the POST /alerts/test request of testAlert and its 2 s timer
    settingsReq,     \* the POST /settings/update request of saveSettings
    \* ---- alerts page, acknowledgeAll (prediction.js)
    ackAll,          \* the for...of loop: the array it iterates and its position
    ackAllSent,      \* history: the alert ids of the requests the loop has sent
    \* ---- location search suggestions (main.js)
    sgReqs,          \* sgReqs[r]: the r-th call of fetchSuggestions and its fetch
    sgController,    \* currentSearchController: the call that created it, 0 for null
    sgBox            \* what #searchSuggestions shows, and the call that wrote it

NotShown == "not_shown"
\* a numeric field that is absent (undefined) in the JSON
Undefined == 0 - 1
\* the breakdown values before updateRiskCard has run
NoBars == [shown |-> FALSE, sat |-> 0, weather |-> 0]

cardVars == <<riskData, cardBars>>
riskVars == <<prediction, markerRisk>>
mapVars == <<mapPc, fetchResult, markers, mapStats, mapOverlap>>
dashVars == <<dashPc, dashIdx, predOutcome, gridCards>>
zoneVars == <<srvZones, zones, zoneLayers, draftLayers, currentZone, zoneForm, saveBtn,
              lastToast, savePc, saveReq, initLoad, saveLoad>>
pageVars == <<srvAlerts, targetZone, pgZones, pgAllZoneNames, pgActive, pgHistory,
              pgAllAlerts, pgPredictions, pgToast, loads, ackReq>>
alertVars == <<alertPc, activeAlerts, alertCards, notifications, alertPolls, alertAcks,
               alertToast, hasToasts, ackedOk, dismissing, alertModal>>
dispatchVars == <<alerts, keyLock, ticks>>
promoVars == <<promoPred, promoReq, promoAlert, promoShown, promoToast, promoCard>>
predVars == <<pdLatLon, pdNameInput, pdSearchInput, pdLastSelected, pdCalls, pdReport, pdView,
              pdLastDone, pdEdited, pdTyped>>
delVars == <<delReq>>
toolVars == <<editMode, deleteMode, currentLayerName, hasGeolocation>>
pageToolVars == <<testReq, settingsReq>>
ackAllVars == <<ackAll, ackAllSent>>
sugVars == <<sgReqs, sgController, sgBox>>
extraVars == <<promoVars, predVars, delVars, ackAllVars, sugVars, toolVars, pageToolVars>>
vars == <<cardVars, riskVars, mapVars, dashVars, zoneVars, pageVars, alertVars, dispatchVars,
          extraVars>>

\* what an action of one page leaves alone
NotCard == <<riskVars, mapVars, dashVars, zoneVars, pageVars, alertVars, dispatchVars, extraVars>>
NotRisk == <<cardVars, mapVars, dashVars, zoneVars, pageVars, alertVars, dispatchVars, extraVars>>
NotMap == <<cardVars, riskVars, dashVars, zoneVars, pageVars, alertVars, dispatchVars, extraVars>>
NotDash == <<cardVars, riskVars, mapVars, zoneVars, pageVars, alertVars, dispatchVars, extraVars>>
NotZone == <<cardVars, riskVars, mapVars, dashVars, pageVars, alertVars, dispatchVars, extraVars>>
\* the alerts page reads the server's zones too
zonePageOnly == <<zones, zoneLayers, draftLayers, currentZone, zoneForm, saveBtn,
                  lastToast, savePc, saveReq, initLoad, saveLoad>>
NotPage == <<cardVars, riskVars, mapVars, dashVars, zonePageOnly, alertVars, dispatchVars, extraVars>>
\* the notifications read the server's alerts too
alertsPageOnly == <<targetZone, pgZones, pgAllZoneNames, pgActive, pgHistory, pgAllAlerts,
                    pgPredictions, pgToast, loads, ackReq>>
NotAlerts == <<cardVars, riskVars, mapVars, dashVars, zoneVars, alertsPageOnly, dispatchVars, extraVars>>
NotDispatch == <<cardVars, riskVars, mapVars, dashVars, zoneVars, pageVars, alertVars, extraVars>>
NotPromo == <<cardVars, riskVars, mapVars, dashVars, zoneVars, pageVars, alertVars, dispatchVars,
              predVars, delVars, ackAllVars, sugVars, toolVars, pageToolVars>>
\* createAlertFromPrediction reloads the state of the alerts page
NotPromoPage == <<cardVars, riskVars, mapVars, dashVars, zonePageOnly, alertVars, dispatchVars,
                  predVars, delVars, ackAllVars, sugVars, toolVars, pageToolVars>>
NotPred == <<cardVars, riskVars, mapVars, dashVars, zoneVars, pageVars, alertVars, dispatchVars,
             promoVars, delVars, ackAllVars, sugVars, toolVars, pageToolVars>>
\* deleteZone works on the zones of the zones page
zoneDeleteOnly == <<draftLayers, currentZone, zoneForm, saveBtn, savePc, saveReq, initLoad,
                    saveLoad>>
NotDelete == <<cardVars, riskVars, mapVars, dashVars, zoneDeleteOnly, pageVars, alertVars,
               dispatchVars, promoVars, predVars, ackAllVars, sugVars, toolVars, pageToolVars>>
\* the tool buttons of the zones page
NotTool == <<cardVars, riskVars, mapVars, dashVars, zoneDeleteOnly, pageVars, alertVars,
             dispatchVars, promoVars, predVars, delVars, ackAllVars, sugVars, pageToolVars>>
\* acknowledgeAll works on the state of the alerts page
NotPageAckAll == <<cardVars, riskVars, mapVars, dashVars, zonePageOnly, alertVars,
                   dispatchVars, promoVars, predVars, delVars, sugVars, toolVars, pageToolVars>>
\* testAlert and saveSettings work on the alerts page
NotPageTool == <<cardVars, riskVars, mapVars, dashVars, zonePageOnly, alertVars,
                 dispatchVars, promoVars, predVars, delVars, ackAllVars, sugVars, toolVars>>
NotSuggest == <<cardVars, riskVars, mapVars, dashVars, zoneVars, pageVars, alertVars,
                dispatchVars, promoVars, predVars, delVars, ackAllVars, toolVars, pageToolVars>>

(***************************************************************************)
(* Numbers.  Contributions are binary fractions n / ContribDen, which a    *)
(* double holds exactly, as it does n * 100 / ContribDen; confidences are  *)
(* hundredths.                                                             *)
(***************************************************************************)
ContribBits == 5
ContribDen == 2 ^ ContribBits

Percent == 100

\* value || 0 : undefined (and 0) become 0
OrZero(v) == IF v = Undefined THEN 0 ELSE v

\* Math.round(n / ContribDen * 100): floor(x + 0.5)
MathRoundPercent(n) == (2 * Percent * n + ContribDen) \div (2 * ContribDen)

(***************************************************************************)
(* Risk card: the breakdown bars of updateRiskCard.                        *)
(***************************************************************************)
Contributions == (0 .. ContribDen) \cup {Undefined}

RiskDatas == [satellite_contribution : Contributions, weather_contribution : Contributions]

\* prediction.js 296-298
BreakdownBars(rd) ==
    [shown   |-> TRUE,
     sat     |-> MathRoundPercent(OrZero(rd.satellite_contribution)),
     weather |-> MathRoundPercent(OrZero(rd.weather_contribution))]

\* a new assessment arrives for the card
NewAssessment ==
    /\ cardBars.shown
    /\ riskData' \in RiskDatas
    /\ cardBars' = NoBars
    /\ UNCHANGED NotCard

updateRiskCard ==
    /\ ~cardBars.shown
    /\ cardBars' = BreakdownBars(riskData)
    /\ UNCHANGED <<riskData, NotCard>>

CardInit == riskData \in RiskDatas /\ cardBars = NoBars
CardIdle ==
    /\ riskData = [satellite_contribution |-> Undefined, weather_contribution |-> Undefined]
    /\ cardBars = NoBars
NextCard == NewAssessment \/ updateRiskCard

\* C9: whenever the two contributions sum to 1, the two displayed
\* percentages sum to exactly 100.
C9_SplitSumsTo100 ==
    (/\ cardBars.shown
     /\ riskData.satellite_contribution # Undefined
     /\ riskData.weather_contribution # Undefined
     /\ riskData.satellite_contribution + riskData.weather_contribution = ContribDen)
    => cardBars.sat + cardBars.weather = Percent

(***************************************************************************)
(* Map marker risk class: getMaxRisk.                                      *)
(***************************************************************************)
HighAbove == 70
MediumAbove == 40
LowAbove == 10

\* the documented thresholds at or above which a hazard is HIGH
FIRE_CONFIDENCE_THRESHOLD == 75
FLOOD_CONFIDENCE_THRESHOLD == 70
CYCLONE_CONFIDENCE_THRESHOLD == 65

Max3(a, b, c) == IF a >= b /\ a >= c THEN a ELSE IF b >= c THEN b ELSE c

\* part_002 443-457
getMaxRisk(p) ==
    LET maxVal == Max3(OrZero(p.fire), OrZero(p.flood), OrZero(p.cyclone))
    IN  IF maxVal > HighAbove THEN "high"
        ELSE IF maxVal > MediumAbove THEN "medium"
        ELSE IF maxVal > LowAbove THEN "low"
        ELSE "safe"

ConfValues == {Undefined, 0, 10, 11, 40, 41, 65, 66, 70, 71, 75, 100}

Predictions == [fire : ConfValues, flood : ConfValues, cyclone : ConfValues]

NewPrediction ==
    /\ markerRisk # NotShown
    /\ prediction' \in Predictions
    /\ markerRisk' = NotShown
    /\ UNCHANGED NotRisk

ClassifyMarker ==
    /\ markerRisk = NotShown
    /\ markerRisk' = getMaxRisk(prediction)
    /\ UNCHANGED <<prediction, NotRisk>>

RiskInit == prediction \in Predictions /\ markerRisk = NotShown
RiskIdle ==
    /\ prediction = [fire |-> Undefined, flood |-> Undefined, cyclone |-> Undefined]
    /\ markerRisk = NotShown
NextRisk == NewPrediction \/ ClassifyMarker

\* C10: a prediction with fire >= 0.75, or flood >= 0.70, or cyclone >= 0.65
\* is classed 'high'.
C10_DocumentedHigh ==
    (/\ markerRisk # NotShown
     /\ \/ OrZero(prediction.fire) >= FIRE_CONFIDENCE_THRESHOLD
        \/ OrZero(prediction.flood) >= FLOOD_CONFIDENCE_THRESHOLD
        \/ OrZero(prediction.cyclone) >= CYCLONE_CONFIDENCE_THRESHOLD)
    => markerRisk = "high"

(***************************************************************************)
(* Map page: loadAllLocations fans out one addLocationMarker per monitored *)
(* location, waits for all of them to settle, then adds the archived       *)
(* predictions; refreshMap clears the markers and loads again.             *)
(***************************************************************************)
NumLocations == 2

MonitoredNames == 1 .. NumLocations
\* names an archived prediction record can carry: one that is monitored too,
\* and one that is not
HistoryNames == {0, 1}
MarkerNames == MonitoredNames \cup HistoryNames

\* part_002 12-37: every monitored location has coordinates
monitoredLocations == [n \in MonitoredNames |-> [name |-> n, hasCoords |-> TRUE, isHistory |-> FALSE]]

NoMarker == [kind |-> "none", riskLevel |-> "none", isHistory |-> FALSE, onMap |-> FALSE]

\* the predictions the API answers with on this page
MapPredictions ==
    {[fire |-> 80, flood |-> 10, cyclone |-> Undefined],
     [fire |-> 20, flood |-> 50, cyclone |-> 30],
     [fire |-> 0, flood |-> 5, cyclone |-> 10]}

\* part_002 399-421, 431: the marker built from a prediction, added to the map
RiskMarker(location, p) ==
    [kind |-> "risk", riskLevel |-> getMaxRisk(p), isHistory |-> location.isHistory,
     onMap |-> TRUE]

\* part_002 479-500
addFallbackMarker(m, location) ==
    IF ~location.hasCoords
    THEN m
    ELSE [m EXCEPT ![location.name] =
             [kind |-> "fallback", riskLevel |-> "none", isHistory |-> FALSE, onMap |-> TRUE]]

addLocationMarker_NoCatch(m, location, outcome, p) ==
    CASE outcome = "ok" -> [m EXCEPT ![location.name] = RiskMarker(location, p)]
      [] outcome = "null" -> addFallbackMarker(m, location)
      [] OTHER -> m

\* part_002 386-436: what addLocationMarker records once its prediction
\* fetch has ended: "ok" with prediction p, "null" (response not ok), or
\* "rejected" (fetch threw)
addLocationMarker(m, location, outcome, p) ==
    CASE outcome = "ok" -> [m EXCEPT ![location.name] = RiskMarker(location, p)]
      [] outcome = "null" -> addFallbackMarker(m, location)
      [] OTHER -> addFallbackMarker(m, location)

\* part_002 829-856: the markers of `markers` that are on the map are counted
updateMapStatistics(m) ==
    LET on == {n \in MarkerNames : m[n].kind # "none" /\ m[n].onMap}
    IN  [total  |-> Cardinality(on),
         high   |-> Cardinality({n \in on : m[n].riskLevel = "high"}),
         medium |-> Cardinality({n \in on : m[n].riskLevel = "medium"}),
         safe   |-> Cardinality({n \in on : m[n].riskLevel \notin {"high", "medium"}})]

NoStats == [total |-> 0, high |-> 0, medium |-> 0, safe |-> 0]

\* the loadAllLocations calls that are followed: the one of the page's
\* start and those of refreshMap
MaxMapLoads == 2
MapLoadIds == 1 .. MaxMapLoads
MapLoadRunning(l) == mapPc[l] \in {"settling", "history"}

\* part_002 39-41, 119-127: the page opens, one addLocationMarker per
\* monitored location
loadAllLocations ==
    /\ mapPc[1] = "start"
    /\ mapPc' = [mapPc EXCEPT ![1] = "settling"]
    /\ fetchResult' = [fetchResult EXCEPT ![1] = [n \in MonitoredNames |-> "pending"]]
    /\ mapOverlap' = [mapOverlap EXCEPT ![1] = "none"]
    /\ UNCHANGED <<markers, mapStats, NotMap>>

\* part_002 127-130: Promise.allSettled resolves in the turn in which the
\* last addLocationMarker of the load ends; the history is requested then
AllSettled(l, n) == \A k \in MonitoredNames \ {n} : fetchResult[l][k] # "pending"
PcAfterMarker(l, n) ==
    [mapPc EXCEPT ![l] = IF AllSettled(l, n) THEN "history" ELSE "settling"]

\* fetchPrediction of load l answered ok: a risk marker, then the statistics
PredictionArrives(l, n, p) ==
    /\ mapPc[l] = "settling"
    /\ fetchResult[l][n] = "pending"
    /\ fetchResult' = [fetchResult EXCEPT ![l][n] = "ok"]
    /\ markers' = addLocationMarker(markers, monitoredLocations[n], "ok", p)
    /\ mapStats' = updateMapStatistics(markers')
    /\ mapPc' = PcAfterMarker(l, n)
    /\ UNCHANGED <<mapOverlap, NotMap>>

\* fetchPrediction answered with a status that is not ok (null), or threw
PredictionFails(l, n, outcome) ==
    /\ mapPc[l] = "settling"
    /\ fetchResult[l][n] = "pending"
    /\ fetchResult' = [fetchResult EXCEPT ![l][n] = outcome]
    /\ markers' = addLocationMarker(markers, monitoredLocations[n], outcome,
                                     [fire |-> Undefined, flood |-> Undefined, cyclone |-> Undefined])
    /\ mapPc' = PcAfterMarker(l, n)
    /\ UNCHANGED <<mapStats, mapOverlap, NotMap>>

\* the archived records GET /predictions/history can answer with: a plain
\* one per prediction, one of a monitored location, a route waypoint and one
\* without coordinates
HistoryRecords ==
    {[name |-> 0, waypoint |-> FALSE, hasCoords |-> TRUE, scores |-> p] : p \in MapPredictions}
    \cup (LET p == CHOOSE q \in MapPredictions : TRUE
          IN  {[name |-> 1, waypoint |-> FALSE, hasCoords |-> TRUE, scores |-> p],
               [name |-> 0, waypoint |-> TRUE, hasCoords |-> TRUE, scores |-> p],
               [name |-> 0, waypoint |-> FALSE, hasCoords |-> FALSE, scores |-> p]})

\* part_002 137-152: the archived records that get a marker
IsAdded(record) ==
    ~(record.name \in MonitoredNames \/ record.waypoint \/ ~record.hasCoords)

\* part_002 135-171: one archived record
AddHistoryRecord(m, record) ==
    IF ~IsAdded(record)
    THEN m
    ELSE addLocationMarker(m, [name |-> record.name, hasCoords |-> TRUE, isHistory |-> TRUE],
                           "ok", record.scores)

RECURSIVE AddHistory(_, _)
AddHistory(m, records) ==
    IF records = <<>> THEN m
    ELSE AddHistory(AddHistoryRecord(m, Head(records)), Tail(records))

MaxHistory == 2

HistoryLists == UNION {[1 .. k -> HistoryRecords] : k \in 0 .. MaxHistory}

\* part_002 131-172: the history answered ok
HistoryArrives(l, records) ==
    /\ mapPc[l] = "history"
    /\ mapPc' = [mapPc EXCEPT ![l] = "done"]
    /\ markers' = AddHistory(markers, records)
    /\ mapStats' = IF \E i \in DOMAIN records : IsAdded(records[i])
                   THEN updateMapStatistics(markers')
                   ELSE mapStats
    /\ UNCHANGED <<fetchResult, mapOverlap, NotMap>>

\* part_002 131-175: the history answered not ok, or the fetch threw
HistoryFails(l) ==
    /\ mapPc[l] = "history"
    /\ mapPc' = [mapPc EXCEPT ![l] = "done"]
    /\ UNCHANGED <<fetchResult, markers, mapStats, mapOverlap, NotMap>>

\* the load a refreshMap starts: the first one not started yet
FreeMapLoad == CHOOSE l \in MapLoadIds : /\ mapPc[l] = "idle"
                                         /\ \A k \in 1 .. (l - 1) : mapPc[k] # "idle"

\* part_002 44, 575-586: the five minute timer or the page calls refreshMap,
\* whatever the earlier loads are doing: every marker is taken off the map,
\* `markers` is emptied and the locations are loaded again
refreshMap ==
    /\ mapPc[1] # "start"
    /\ \E l \in MapLoadIds : mapPc[l] = "idle"
    /\ markers' = [n \in MarkerNames |-> NoMarker]
    /\ mapPc' = [mapPc EXCEPT ![FreeMapLoad] = "settling"]
    /\ fetchResult' = [fetchResult EXCEPT ![FreeMapLoad] = [n \in MonitoredNames |-> "pending"]]
    /\ mapOverlap' = [l \in MapLoadIds |->
                        IF l = FreeMapLoad
                        THEN IF \E k \in MapLoadIds : mapPc[k] = "settling"
                             THEN "earlier" ELSE "none"
                        ELSE IF MapLoadRunning(l) THEN "refreshed"
                        ELSE mapOverlap[l]]
    /\ UNCHANGED <<mapStats, NotMap>>

\* part_002 814-826: the 'show history' box is switched and its handler runs
toggleHistoryLayer(showHistory) ==
    /\ mapPc[1] # "start"
    /\ markers' = [n \in MarkerNames |->
                     IF markers[n].kind # "none" /\ markers[n].isHistory
                     THEN [markers[n] EXCEPT !.onMap = showHistory]
                     ELSE markers[n]]
    /\ mapStats' = updateMapStatistics(markers')
    /\ UNCHANGED <<mapPc, fetchResult, mapOverlap, NotMap>>

MapInit ==
    /\ mapPc = [l \in MapLoadIds |-> IF l = 1 THEN "start" ELSE "idle"]
    /\ fetchResult = [l \in MapLoadIds |-> [n \in MonitoredNames |-> "none"]]
    /\ markers = [n \in MarkerNames |-> NoMarker]
    /\ mapStats = NoStats
    /\ mapOverlap = [l \in MapLoadIds |-> "none"]
MapIdle == MapInit

NextMap ==
    \/ loadAllLocations
    \/ \E l \in MapLoadIds, n \in MonitoredNames, p \in MapPredictions : PredictionArrives(l, n, p)
    \/ \E l \in MapLoadIds, n \in MonitoredNames, o \in {"null", "rejected"} :
          PredictionFails(l, n, o)
    \/ \E l \in MapLoadIds, records \in HistoryLists : HistoryArrives(l, records)
    \/ \E l \in MapLoadIds : HistoryFails(l)
    \/ refreshMap
    \/ \E showHistory \in BOOLEAN : toggleHistoryLayer(showHistory)

\* the last addLocationMarker of load l ends in this step
MonitoredLoaded(l) == mapPc[l] = "settling" /\ mapPc'[l] = "history"

\* every monitored location has the marker that load l's fetch of it gave
MarkedAsFetched(l, m) ==
    \A n \in MonitoredNames :
        /\ m[n].kind # "none"
        /\ fetchResult'[l][n] = "ok" => m[n].kind = "risk"
        /\ fetchResult'[l][n] # "ok" => m[n].kind = "fallback"

\* C7 as stated: when a loadAllLocations completes, every monitored
\* location has a marker in `markers`: a risk marker if its prediction
\* arrived, a fallback marker otherwise.
C7_EveryLocationMarked_AnyLoad ==
    [][\A l \in MapLoadIds : MonitoredLoaded(l) => MarkedAsFetched(l, markers')]_vars

\* the kind of marker a fetch that has ended gives
KindOf(result) == IF result = "ok" THEN "risk" ELSE "fallback"

\* every monitored location has a marker, the one that the fetch of load l
\* or of a load started before it gave
MarkedAsSomeFetched(l, m) ==
    \A n \in MonitoredNames :
        /\ m[n].kind # "none"
        /\ \E k \in 1 .. l : /\ fetchResult'[k][n] \notin {"none", "pending"}
                             /\ m[n].kind = KindOf(fetchResult'[k][n])

\* C7: one location's failed fetch takes no other marker away.  When a
\* loadAllLocations completes its predictions, no refreshMap having run
\* since it started, and no earlier load having been waiting for
\* predictions when it started, every monitored location has a marker in
\* `markers`: a risk marker if its prediction arrived, a fallback marker
\* otherwise.  When it was started by a refreshMap while an earlier load
\* was waiting for predictions (and no refreshMap has run since), every
\* monitored location has a marker too, of the kind that this load's fetch
\* or the earlier load's fetch of the location gave.
C7_EveryLocationMarked ==
    [][\A l \in MapLoadIds :
          /\ (MonitoredLoaded(l) /\ mapOverlap[l] = "none") => MarkedAsFetched(l, markers')
          /\ (MonitoredLoaded(l) /\ mapOverlap[l] = "earlier") =>
                 MarkedAsSomeFetched(l, markers')]_vars

\* a load that ran alone has completed: one fetch threw and one delivered
\* its prediction
C7_Witness ==
    \E l \in MapLoadIds :
        /\ mapPc[l] = "history"
        /\ mapOverlap[l] = "none"
        /\ \E a, c \in MonitoredNames :
               /\ fetchResult[l][a] = "rejected" /\ markers[a].kind = "fallback"
               /\ fetchResult[l][c] = "ok" /\ markers[c].kind = "risk"

\* a load that refreshMap started after the first one had ended has
\* completed with one failed and one delivered prediction
C7_WitnessAfterRefresh ==
    /\ mapPc[2] = "history"
    /\ mapPc[1] = "done"
    /\ mapOverlap[2] = "none"
    /\ \E a, c \in MonitoredNames :
           /\ fetchResult[2][a] = "null" /\ markers[a].kind = "fallback"
           /\ fetchResult[2][c] = "ok" /\ markers[c].kind = "risk"

\* a load that refreshMap started while the first one was waiting has
\* completed: a location whose prediction it received carries the fallback
\* marker of the first load's failed fetch
C7_WitnessEarlierLoadWrites ==
    /\ mapPc[2] = "history"
    /\ mapOverlap[2] = "earlier"
    /\ \E a \in MonitoredNames :
           /\ fetchResult[2][a] = "ok"
           /\ fetchResult[1][a] = "rejected"
           /\ markers[a].kind = "fallback"

(***************************************************************************)
(* Dashboard: loadMonitoredRegions asks for the locations, then for one    *)
(* prediction after the other inside a single try block.                   *)
(***************************************************************************)
\* the answer of GET /locations
DashLocations == [i \in 1 .. NumLocations |-> i]

RiskLevels == {"LOW", "MEDIUM", "HIGH"}
Threats == {"fire", "flood", "cyclone"}

FailedOutcomes == {"error_status", "rejected"}

\* satellite.js 736-738: the grid exists, the locations are requested
loadMonitoredRegions ==
    /\ dashPc = "start"
    /\ dashPc' = "locations"
    /\ UNCHANGED <<dashIdx, predOutcome, gridCards, NotDash>>

\* satellite.js 741-749: the locations arrive, the grid is emptied and the
\* first prediction is requested
LocationsArrive ==
    /\ dashPc = "locations"
    /\ gridCards' = <<>>
    /\ dashIdx' = 1
    /\ dashPc' = IF Len(DashLocations) = 0 THEN "done" ELSE "loop"
    /\ UNCHANGED <<predOutcome, NotDash>>

\* satellite.js 741-742, 774-776: the locations request throws
LocationsFail ==
    /\ dashPc = "locations"
    /\ dashPc' = "done"
    /\ UNCHANGED <<dashIdx, predOutcome, gridCards, NotDash>>

\* satellite.js 754-773: the loop after the card of location dashIdx
LoopAfterCard == IF dashIdx = Len(DashLocations) THEN "done" ELSE "loop"

\* satellite.js 754-773: the prediction of the current location arrives, its
\* card is appended and the loop goes on to the next location
PredictCard(level, threat) ==
    /\ dashPc = "loop"
    /\ predOutcome' = [predOutcome EXCEPT ![DashLocations[dashIdx]] = "ok"]
    /\ gridCards' = Append(gridCards, [name |-> DashLocations[dashIdx], risk |-> level, threat |-> threat])
    /\ dashPc' = LoopAfterCard
    /\ dashIdx' = IF dashPc' = "done" THEN dashIdx ELSE dashIdx + 1
    /\ UNCHANGED NotDash

\* satellite.js 749-754, 762, 774-776: the request throws ("rejected"), or
\* the server answers an error body without the prediction fields
\* ("error_status"), and the exception leaves the loop
LoopAfterFailure == "done"

PredictFails(outcome) ==
    /\ dashPc = "loop"
    /\ predOutcome' = [predOutcome EXCEPT ![DashLocations[dashIdx]] = outcome]
    /\ dashPc' = LoopAfterFailure
    /\ dashIdx' = IF dashPc' = "done" \/ dashIdx = Len(DashLocations) THEN dashIdx ELSE dashIdx + 1
    /\ UNCHANGED <<gridCards, NotDash>>

DashInit ==
    /\ dashPc = "start"
    /\ dashIdx = 0
    /\ predOutcome = [n \in MonitoredNames |-> "none"]
    /\ gridCards = <<>>
DashIdle == DashInit

\* satellite.js 672-676: the page is opened again
ReloadDashboard ==
    /\ dashPc = "done"
    /\ dashPc' = "start"
    /\ dashIdx' = 0
    /\ predOutcome' = [n \in MonitoredNames |-> "none"]
    /\ gridCards' = <<>>
    /\ UNCHANGED NotDash

NextDash ==
    \/ loadMonitoredRegions
    \/ LocationsArrive
    \/ LocationsFail
    \/ \E level \in RiskLevels, threat \in Threats : PredictCard(level, threat)
    \/ \E o \in FailedOutcomes : PredictFails(o)
    \/ ReloadDashboard

HasCard(n) == \E i \in DOMAIN gridCards : gridCards[i].name = n

\* C8: a failed prediction request for one location does not prevent the
\* cards of the other locations: once loadMonitoredRegions has ended with
\* the location list received, every location whose own request did not
\* fail has a card.
C8_OtherCardsRendered ==
    (dashPc = "done" /\ dashIdx >= 1) =>
        \A n \in MonitoredNames : predOutcome[n] \notin FailedOutcomes => HasCard(n)

(***************************************************************************)
(* Zones page: the user draws a polygon, fills the form and saves; the     *)
(* create request is followed by a reload of the zone list.                *)
(***************************************************************************)
MaxZones == 2

NoDraft == "null"
DraftIds == {"d1", "d2"}

\* what the user can type as zone name, character by character
NameInputs == {<<>>, <<" ">>, <<" ", "N", " ">>}

\* what the user can type as recipient emails, split at the commas, each
\* entry character by character: nothing, 'a,,b' and 'a, ,b '
EmailInputs == {<<>>, <<<<"a">>, <<>>, <<"b">>>>, <<<<"a">>, <<" ">>, <<"b", " ">>>>}

RECURSIVE TrimLeft(_)
TrimLeft(str) == IF str # <<>> /\ Head(str) = " " THEN TrimLeft(Tail(str)) ELSE str

RECURSIVE TrimRight(_)
TrimRight(str) ==
    IF str # <<>> /\ str[Len(str)] = " " THEN TrimRight(SubSeq(str, 1, Len(str) - 1)) ELSE str

\* String.prototype.trim
Trim(str) == TrimRight(TrimLeft(str))

\* prediction.js 852-853: the entries of the comma separated list, trimmed,
\* without the empty ones
RecipientEmails(raw) == SelectSeq([i \in DOMAIN raw |-> Trim(raw[i])], LAMBDA e : e # <<>>)

NoToast == [kind |-> "none", text |-> "none", success_count |-> 0, failure_count |-> 0]
Toast(kind, text) == [kind |-> kind, text |-> text, success_count |-> 0, failure_count |-> 0]

showSuccess(text) == Toast("success", text)
showError(text) == Toast("error", text)

NoVerification == [status |-> "none", success_count |-> 0, failure_count |-> 0]

\* the verification summaries the server can answer for n recipients: none
\* to notify is skipped, a broken channel is an error, and every recipient
\* counts either as a success or as a failure
Verifications(n) ==
    IF n = 0
    THEN {[status |-> "skipped", success_count |-> 0, failure_count |-> 0], NoVerification}
    ELSE {[status |-> "success", success_count |-> n - f, failure_count |-> f] : f \in 0 .. n}
         \cup {[status |-> "error", success_count |-> 0, failure_count |-> 0], NoVerification}

VerificationToast_BounceIsError(v) ==
    IF v.status = "error" \/ v.failure_count > 0 THEN Toast("error", "verification_failed")
    ELSE Toast("success", "saved")

\* prediction.js 881-894: the message for a verification summary
VerificationToast(v) ==
    IF v.status = "success"
    THEN IF v.failure_count > 0
         THEN [kind |-> "success", text |-> "established_with_failures",
               success_count |-> v.success_count, failure_count |-> v.failure_count]
         ELSE showSuccess("established_and_verified")
    ELSE IF v.status = "skipped" THEN showSuccess("established_no_verification")
    ELSE IF v.status = "error" THEN showError("verification_failed")
    ELSE showSuccess("saved")

InputError_NoDraftCheck(name, draft) ==
    IF name = <<>> THEN "enter_name" ELSE "none"

\* prediction.js 827-835: the two checks before anything is sent
InputError(name, draft) ==
    IF name = <<>> THEN "enter_name"
    ELSE IF draft = NoDraft THEN "no_zone_drawn"
    ELSE "none"

\* the create request of saveZone: the trimmed name, the number of
\* recipients, the polygon whose coordinates it carries (prediction.js 848)
\* and the verification summary of the response
NoRequest == [stage |-> "none", name |-> <<>>, recipients |-> 0, draft |-> NoDraft,
              v |-> NoVerification]
NoLoad == [stage |-> "none", snapshot |-> <<>>]

SaveLabel == "save_zone"
LinkLabel == "establishing_link"

\* prediction.js 738-745: a polygon is drawn
DrawZone(d) ==
    /\ d \notin draftLayers /\ d # currentZone
    /\ draftLayers' = draftLayers \cup {d}
    /\ currentZone' = d
    /\ zoneForm' = [zoneForm EXCEPT !.visible = TRUE]
    /\ UNCHANGED <<srvZones, zones, zoneLayers, saveBtn, lastToast, savePc, saveReq,
                   initLoad, saveLoad, NotZone>>

\* the user types into the form
TypeForm(name, emails) ==
    /\ zoneForm.visible
    /\ <<name, emails>> # <<zoneForm.zoneName, zoneForm.recipientEmails>>
    /\ zoneForm' = [zoneForm EXCEPT !.zoneName = name, !.recipientEmails = emails]
    /\ UNCHANGED <<srvZones, zones, zoneLayers, draftLayers, currentZone, saveBtn, lastToast,
                   savePc, saveReq, initLoad, saveLoad, NotZone>>

\* prediction.js 920-929
FormCleared == [visible |-> FALSE, zoneName |-> <<>>, recipientEmails |-> <<>>]

\* prediction.js 920-929, on the cancel button
cancelZone ==
    /\ zoneForm.visible
    /\ draftLayers' = draftLayers \ {currentZone}
    /\ zoneForm' = FormCleared
    /\ currentZone' = NoDraft
    /\ UNCHANGED <<srvZones, zones, zoneLayers, saveBtn, lastToast, savePc, saveReq,
                   initLoad, saveLoad, NotZone>>

\* prediction.js 1119-1127: the 'clear all' button and the answer to
\* confirm(); the draft is removed and the form hidden, its fields keep
\* their text
clearAll(confirmed) ==
    /\ IF confirmed
       THEN /\ draftLayers' = draftLayers \ {currentZone}
            /\ currentZone' = NoDraft
            /\ zoneForm' = [zoneForm EXCEPT !.visible = FALSE]
       ELSE UNCHANGED <<draftLayers, currentZone, zoneForm>>
    /\ UNCHANGED <<srvZones, zones, zoneLayers, saveBtn, lastToast, savePc, saveReq,
                   initLoad, saveLoad, NotZone>>

\* prediction.js 837-841: the button while saveZone runs
BusyButton_StillEnabled == [disabled |-> FALSE, label |-> LinkLabel]
BusyButton == [disabled |-> TRUE, label |-> LinkLabel]

\* prediction.js 823-871: the click on the save button, up to the request
saveZone ==
    /\ ~saveBtn.disabled
    /\ Len(srvZones) < MaxZones
    /\ LET name == Trim(zoneForm.zoneName)
           err == InputError(name, currentZone)
       IN  IF err # "none"
           THEN /\ lastToast' = showError(err)
                /\ UNCHANGED <<saveBtn, savePc, saveReq>>
           ELSE /\ saveBtn' = BusyButton
                /\ savePc' = "creating"
                /\ saveReq' = [stage |-> "sent", name |-> name,
                               recipients |-> Len(RecipientEmails(zoneForm.recipientEmails)),
                               draft |-> currentZone, v |-> NoVerification]
                /\ UNCHANGED lastToast
    /\ UNCHANGED <<srvZones, zones, zoneLayers, draftLayers, currentZone, zoneForm,
                   initLoad, saveLoad, NotZone>>

\* the next zone id the server hands out
NextZoneId == Len(srvZones) + 1

\* POST /zones/create at the server: the zone is stored and the recipients
\* are verified
ServerCreatesZone(v) ==
    /\ saveReq.stage = "sent"
    /\ v \in Verifications(saveReq.recipients)
    /\ srvZones' = Append(srvZones, [zone_id |-> NextZoneId, name |-> saveReq.name])
    /\ saveReq' = [saveReq EXCEPT !.stage = "ok", !.v = v]
    /\ UNCHANGED <<zones, zoneLayers, draftLayers, currentZone, zoneForm, saveBtn, lastToast,
                   savePc, initLoad, saveLoad, NotZone>>

\* POST /zones/create refused by the server, or lost on the way
ServerRefusesZone ==
    /\ saveReq.stage = "sent"
    /\ saveReq' = [saveReq EXCEPT !.stage = "failed"]
    /\ UNCHANGED <<srvZones, zones, zoneLayers, draftLayers, currentZone, zoneForm, saveBtn,
                   lastToast, savePc, initLoad, saveLoad, NotZone>>

\* prediction.js 873-879: the create response is ok, loadZones is called
CreateSucceeds ==
    /\ savePc = "creating"
    /\ saveReq.stage = "ok"
    /\ savePc' = "reloading"
    /\ saveLoad' = [stage |-> "sent", snapshot |-> <<>>]
    /\ UNCHANGED <<srvZones, zones, zoneLayers, draftLayers, currentZone, zoneForm, saveBtn,
                   lastToast, saveReq, initLoad, NotZone>>

\* prediction.js 873, 905-914: the create response is not ok, or fetch threw
CreateFails ==
    /\ savePc = "creating"
    /\ saveReq.stage = "failed"
    /\ lastToast' = showError("link_failed")
    /\ saveBtn' = [disabled |-> FALSE, label |-> SaveLabel]
    /\ savePc' = "idle"
    /\ saveReq' = NoRequest
    /\ UNCHANGED <<srvZones, zones, zoneLayers, draftLayers, currentZone, zoneForm,
                   initLoad, saveLoad, NotZone>>

\* prediction.js 653-672: initZonesPage calls loadZones
initZonesPage ==
    /\ initLoad.stage = "none"
    /\ initLoad' = [stage |-> "sent", snapshot |-> <<>>]
    /\ UNCHANGED <<srvZones, zones, zoneLayers, draftLayers, currentZone, zoneForm, saveBtn,
                   lastToast, savePc, saveReq, saveLoad, NotZone>>

\* GET /zones at the server: the answer carries the zones stored right now
ServerListsZones(load) == [stage |-> "ok", snapshot |-> srvZones]
ServerFailsZones(load) == [stage |-> "failed", snapshot |-> <<>>]

ServerAnswersInitLoad ==
    /\ initLoad.stage = "sent"
    /\ initLoad' \in {ServerListsZones(initLoad), ServerFailsZones(initLoad)}
    /\ UNCHANGED <<srvZones, zones, zoneLayers, draftLayers, currentZone, zoneForm, saveBtn,
                   lastToast, savePc, saveReq, saveLoad, NotZone>>

ServerAnswersSaveLoad ==
    /\ saveLoad.stage = "sent"
    /\ saveLoad' \in {ServerListsZones(saveLoad), ServerFailsZones(saveLoad)}
    /\ UNCHANGED <<srvZones, zones, zoneLayers, draftLayers, currentZone, zoneForm, saveBtn,
                   lastToast, savePc, saveReq, initLoad, NotZone>>

ZoneIds(list) == {list[i].zone_id : i \in DOMAIN list}

\* prediction.js 934-984: loadZones once its response is there.  With an ok
\* response the list is replaced and every layer of drawnItems is cleared
\* and redrawn from it; otherwise localStorage holds no 'sdars_zones' item
\* and nothing changes.  The result is <<zones, zoneLayers, draftLayers>>.
loadZones(load) ==
    IF load.stage = "ok"
    THEN <<load.snapshot, ZoneIds(load.snapshot), {}>>
    ELSE <<zones, zoneLayers, draftLayers>>

InitLoadDone ==
    /\ initLoad.stage \in {"ok", "failed"}
    /\ zones' = loadZones(initLoad)[1]
    /\ zoneLayers' = loadZones(initLoad)[2]
    /\ draftLayers' = loadZones(initLoad)[3]
    /\ initLoad' = [stage |-> "done", snapshot |-> <<>>]
    /\ UNCHANGED <<srvZones, currentZone, zoneForm, saveBtn, lastToast, savePc, saveReq,
                   saveLoad, NotZone>>

\* prediction.js 879-903: loadZones returns, the message is shown, the form
\* and the drawing are cleaned up and the button is restored
SaveReloadDone ==
    /\ savePc = "reloading"
    /\ saveLoad.stage \in {"ok", "failed"}
    /\ zones' = loadZones(saveLoad)[1]
    /\ zoneLayers' = loadZones(saveLoad)[2]
    /\ draftLayers' = loadZones(saveLoad)[3] \ {currentZone}
    /\ lastToast' = VerificationToast(saveReq.v)
    /\ zoneForm' = FormCleared
    /\ currentZone' = NoDraft
    /\ saveBtn' = [disabled |-> FALSE, label |-> SaveLabel]
    /\ savePc' = "idle"
    /\ saveReq' = NoRequest
    /\ saveLoad' = NoLoad
    /\ UNCHANGED <<srvZones, initLoad, NotZone>>

\* the page opens with no zone stored; the browser may restore the text
\* of the name field
ZoneInit ==
    /\ srvZones = <<>>
    /\ zones = <<>>
    /\ zoneLayers = {}
    /\ draftLayers = {}
    /\ currentZone = NoDraft
    /\ \E name \in NameInputs : zoneForm = [FormCleared EXCEPT !.zoneName = name]
    /\ saveBtn = [disabled |-> FALSE, label |-> SaveLabel]
    /\ lastToast = NoToast
    /\ savePc = "idle"
    /\ saveReq = NoRequest
    /\ initLoad = NoLoad
    /\ saveLoad = NoLoad
ZoneIdle == ZoneInit /\ zoneForm = FormCleared

NextZone ==
    \/ initZonesPage
    \/ ServerAnswersInitLoad
    \/ InitLoadDone
    \/ \E d \in DraftIds : DrawZone(d)
    \/ \E name \in NameInputs, emails \in EmailInputs : TypeForm(name, emails)
    \/ cancelZone
    \/ \E confirmed \in BOOLEAN : clearAll(confirmed)
    \/ saveZone
    \/ \E v \in Verifications(saveReq.recipients) : ServerCreatesZone(v)
    \/ ServerRefusesZone
    \/ CreateSucceeds
    \/ CreateFails
    \/ ServerAnswersSaveLoad
    \/ SaveReloadDone

\* a step in which saveZone finishes after its create request succeeded
SaveFinishesAfterCreate == savePc = "reloading" /\ savePc' = "idle"

\* prediction.js 881-894 in a step that ends saveZone: an error only for
\* status 'error'; 'success' with failures as a success with both counts;
\* 'skipped' as a success
ToastFollowsVerification ==
    /\ lastToast'.kind \in {"success", "error"}
    /\ lastToast'.kind = "error" <=> saveReq.v.status = "error"
    /\ (saveReq.v.status = "success" /\ saveReq.v.failure_count > 0) =>
           /\ lastToast'.kind = "success"
           /\ lastToast'.success_count = saveReq.v.success_count
           /\ lastToast'.failure_count = saveReq.v.failure_count
    /\ saveReq.v.status = "skipped" => lastToast'.kind = "success"

\* C5 as stated: when the create request succeeds, saveZone shows an error
\* only if verification.status is 'error'; 'success' with failure_count > 0
\* is shown as a success with both counts and 'skipped' as a success; and in
\* every one of these cases zonesState.zones is the list the server has
\* answered, the polygon that was saved is off the drawing layer and the
\* form is cleared.
C5_BounceIsNotAnError_AlwaysReloaded ==
    [][SaveFinishesAfterCreate =>
        /\ ToastFollowsVerification
        /\ saveLoad.stage = "ok"
        /\ zones' = saveLoad.snapshot
        /\ currentZone' = NoDraft
        /\ saveReq.draft \notin draftLayers'
        /\ zoneForm' = FormCleared]_vars

\* C5: when the create request succeeds, saveZone shows an error only if
\* verification.status is 'error'; 'success' with failure_count > 0 is shown
\* as a success with both counts and 'skipped' as a success.  In every one
\* of these cases GET /zones has been asked and answered or failed, the
\* form is cleared and zonesState.currentZone is null with its polygon off
\* the drawing layer.  When GET /zones answered, zonesState.zones is its
\* list and no drawn polygon is left; when it failed, zonesState.zones is
\* as before, and the polygon that was saved is still drawn exactly when
\* another polygon was drawn after the click on save and the saved one was
\* not removed meanwhile.
C5_BounceIsNotAnError ==
    [][SaveFinishesAfterCreate =>
        /\ ToastFollowsVerification
        /\ saveLoad.stage \in {"ok", "failed"}
        /\ saveLoad.stage = "ok" =>
               /\ zones' = saveLoad.snapshot
               /\ draftLayers' = {}
        /\ saveLoad.stage = "failed" =>
               /\ zones' = zones
               /\ saveReq.draft \in draftLayers' <=>
                      (saveReq.draft \in draftLayers /\ saveReq.draft # currentZone)
        /\ currentZone' = NoDraft
        /\ currentZone \notin draftLayers'
        /\ zoneForm' = FormCleared]_vars

\* a finished saveZone whose verification counted one delivered and one
\* failed recipient: reported as success, list reloaded, draft and form gone
C5_Witness ==
    /\ savePc = "idle"
    /\ lastToast.kind = "success"
    /\ lastToast.success_count = 1
    /\ lastToast.failure_count = 1
    /\ Len(zones) >= 1
    /\ draftLayers = {}
    /\ currentZone = NoDraft
    /\ zoneForm = FormCleared

\* a finished saveZone of the same kind whose GET /zones failed: the zone
\* is stored at the server and missing from the list, and the polygon that
\* was saved is still drawn
C5_WitnessReloadFailed ==
    /\ savePc = "idle"
    /\ lastToast.kind = "success"
    /\ lastToast.success_count = 1
    /\ lastToast.failure_count = 1
    /\ Len(srvZones) = 1
    /\ zones = <<>>
    /\ draftLayers # {}
    /\ currentZone = NoDraft
    /\ zoneForm = FormCleared

\* C6: with an empty zone name or no polygon drawn, saveZone sends no create
\* request, shows an error and leaves zonesState.zones,
\* zonesState.currentZone and the save button unchanged.
C6_InvalidZoneRejected ==
    [][(saveZone /\ (Trim(zoneForm.zoneName) = <<>> \/ currentZone = NoDraft)) =>
        /\ lastToast'.kind = "error"
        /\ UNCHANGED <<saveReq, savePc, srvZones, zones, currentZone, saveBtn>>]_vars

\* saveZone has refused a drawn polygon whose name is only a blank, and
\* nothing was sent
C6_Witness ==
    /\ lastToast = showError("enter_name")
    /\ zoneForm.zoneName = <<" ">>
    /\ currentZone # NoDraft
    /\ saveReq = NoRequest
    /\ ~saveBtn.disabled

\* saveZone has refused a named zone without polygon
C6_WitnessNoPolygon ==
    /\ lastToast = showError("no_zone_drawn")
    /\ currentZone = NoDraft
    /\ saveReq = NoRequest
    /\ srvZones = <<>>


\* saveZone sends its create request in this step
CreateRequestSent == saveZone /\ saveReq'.stage = "sent"

\* saveZone finishes in this step
SaveFinishes == savePc # "idle" /\ savePc' = "idle"

\* C15: while saveZone runs, from its create request to its end, the save
\* button is disabled; a create request is sent only when no saveZone is
\* running, so at most one is in flight; and when saveZone finishes,
\* after success or failure, the button is enabled with its first label.
C15_ButtonGuardsSave ==
    /\ [](savePc # "idle" => saveBtn.disabled)
    /\ [][/\ CreateRequestSent => (savePc = "idle" /\ saveReq.stage = "none")
          /\ SaveFinishes => saveBtn' = [disabled |-> FALSE, label |-> SaveLabel]]_vars

\* saveZone has failed with one zone saved before: the button is enabled
\* again
C15_Witness ==
    /\ savePc = "idle"
    /\ lastToast = showError("link_failed")
    /\ saveBtn = [disabled |-> FALSE, label |-> SaveLabel]
    /\ Len(srvZones) >= 1

(***************************************************************************)
(* Alerts page: loadAlerts fetches predictions, active alerts, history and *)
(* zones in parallel and filters the alerts by the zones; an               *)
(* acknowledgement is followed by another loadAlerts.                      *)
(***************************************************************************)
ZoneN == [zone_id |-> 1, name |-> <<"N">>]
ZoneNW == [zone_id |-> 2, name |-> <<"N", "W">>]

\* the zones that exist when the alerts page is opened
ZoneCatalog == <<ZoneN, ZoneNW>>

\* the URL parameters zone and zoneId of the single zone view
NoTarget == [zone |-> <<>>, zoneId |-> 0]
TargetNW == [zone |-> ZoneNW.name, zoneId |-> ZoneNW.zone_id]

\* a zone as an alert's metadata.matched_zones lists it
MatchedN == [id |-> ZoneN.zone_id, name |-> ZoneN.name]

AlertIds == {1, 2}
AlertOrder == <<1, 2>>

\* the alerts the dispatcher has raised: one matched to zone N in its
\* metadata, one that names zone NW in its location
AlertCatalog ==
    [a \in AlertIds |->
        IF a = 1
        THEN [alert_id |-> 1, matched_zones |-> <<MatchedN>>, locationName |-> <<"M">>]
        ELSE [alert_id |-> 2, matched_zones |-> <<>>,
              locationName |-> <<"Z", "o", "n", "e", ":", " ", "N", "W">>]]

\* String.prototype.includes
Includes(str, sub) ==
    \E i \in 1 .. (Len(str) - Len(sub) + 1) : SubSeq(str, i, i + Len(sub) - 1) = sub

\* `Zone: ${zoneName}`
ZoneTag(zoneName) == <<"Z", "o", "n", "e", ":", " ">> \o zoneName

\* prediction.js 1325-1328: the test of one zone name
InZone(alert, zoneName) ==
    \/ \E i \in DOMAIN alert.matched_zones : alert.matched_zones[i].name = zoneName
    \/ Includes(alert.locationName, ZoneTag(zoneName))

\* prediction.js 1322-1329
isZoneAlert(alert, allZoneNames) ==
    \E k \in DOMAIN allZoneNames : InZone(alert, allZoneNames[k])

\* prediction.js 1355-1360, 1381-1386: the filter of the single zone view
InTargetZone(alert, target) ==
    \/ \E i \in DOMAIN alert.matched_zones :
          \/ alert.matched_zones[i].name = target.zone
          \/ alert.matched_zones[i].id = target.zoneId
    \/ Includes(alert.locationName, ZoneTag(target.zone))

\* prediction.js 1353-1372, 1380-1390: the filter of either view
FilterAlerts(ids, target, allZoneNames) ==
    IF target.zone # <<>>
    THEN SelectSeq(ids, LAMBDA a : InTargetZone(AlertCatalog[a], target))
    ELSE SelectSeq(ids, LAMBDA a : isZoneAlert(AlertCatalog[a], allZoneNames))

ZoneNamesOf(list) == [k \in DOMAIN list |-> list[k].name]

\* the loadAlerts calls that the page itself starts (the first load, the
\* 30 second refresh, refreshAlerts, testAlert) and that run side by side
MaxLoads == 1
TimerLoads == {<<"timer", i>> : i \in 1 .. MaxLoads}
\* the reloads of acknowledgeAlertFromPage and of createAlertFromPrediction
AckLoad == <<"ack", 1>>
PromoteLoad == <<"promote", 1>>
Loaders == TimerLoads \cup {AckLoad, PromoteLoad}

FetchPending == [st |-> "pending", data |-> <<>>]
FetchFailed == [st |-> "failed", data |-> <<>>]
FetchOk(data) == [st |-> "ok", data |-> data]

IdleLoad == [stage |-> "idle", pred |-> FetchFailed, active |-> FetchFailed,
             history |-> FetchFailed, zones |-> FetchFailed]
StartedLoad == [stage |-> "fetching", pred |-> FetchPending, active |-> FetchPending,
                history |-> FetchPending, zones |-> FetchPending]

\* GET /predictions/history?limit=30
PredictionHistory == <<"p1">>

\* GET /alerts/active and GET /alerts/history?limit=30 at the server
ServerActive == SelectSeq(AlertOrder, LAMBDA a : srvAlerts[a] = "ACTIVE")
ServerHistory == SelectSeq(AlertOrder, LAMBDA a : srvAlerts[a] = "ACKNOWLEDGED")

NoAck == [stage |-> "none", alert |-> 0]

\* the first of the page's loads that is not running
FreeTimerLoad ==
    CHOOSE l \in TimerLoads :
        /\ loads[l].stage = "idle"
        /\ \A k \in TimerLoads : k[2] < l[2] => loads[k].stage # "idle"

\* prediction.js 1269-1276, 1845-1847: the first load, the 30 second
\* refresh and refreshAlerts, whatever else runs
StartTimerLoad ==
    /\ \E l \in TimerLoads : loads[l].stage = "idle"
    /\ loads' = [loads EXCEPT ![FreeTimerLoad] = StartedLoad]
    /\ UNCHANGED <<srvAlerts, srvZones, targetZone, pgZones, pgAllZoneNames, pgActive,
                   pgHistory, pgAllAlerts, pgPredictions, pgToast, ackReq, NotPage>>

\* prediction.js 1295-1304: one of the four fetches is answered (null stands
\* for a response that is not ok and for a fetch that threw)
FetchAnswered(l, which, ok) ==
    /\ loads[l].stage = "fetching"
    /\ loads[l][which].st = "pending"
    /\ loads' = [loads EXCEPT ![l][which] =
                    IF ~ok THEN FetchFailed
                    ELSE CASE which = "pred" -> FetchOk(PredictionHistory)
                           [] which = "active" -> FetchOk(ServerActive)
                           [] which = "history" -> FetchOk(ServerHistory)
                           [] OTHER -> FetchOk(srvZones)]
    /\ UNCHANGED <<srvAlerts, srvZones, targetZone, pgZones, pgAllZoneNames, pgActive,
                   pgHistory, pgAllAlerts, pgPredictions, pgToast, ackReq, NotPage>>

\* one of the fetches of a loadAlerts is answered, in any order and with
\* either outcome
LoadFetchAnswered(l) ==
    \E which \in {"pred", "active", "history", "zones"}, ok \in BOOLEAN :
        FetchAnswered(l, which, ok)
AnyFetchAnswered == \E l \in Loaders : LoadFetchAnswered(l)

AllFetched(load) ==
    /\ load.stage = "fetching"
    /\ \A which \in {"pred", "active", "history", "zones"} : load[which].st # "pending"

\* prediction.js 1314-1319
ZonesAfter(load) == IF load.zones.st = "ok" THEN load.zones.data ELSE pgZones
NamesAfter(load) == IF load.zones.st = "ok" THEN ZoneNamesOf(load.zones.data) ELSE pgAllZoneNames

\* prediction.js 1349-1374
ActiveAfter(load) ==
    IF load.active.st = "ok"
    THEN FilterAlerts(load.active.data, targetZone, NamesAfter(load))
    ELSE pgActive

\* prediction.js 1376-1392
HistoryAfter(load) ==
    IF load.history.st = "ok"
    THEN FilterAlerts(load.history.data, targetZone, NamesAfter(load))
    ELSE pgHistory

\* prediction.js 1306-1403: Promise.all has resolved, the state is replaced
loadAlerts(l) ==
    /\ AllFetched(loads[l])
    /\ pgZones' = ZonesAfter(loads[l])
    /\ pgAllZoneNames' = NamesAfter(loads[l])
    /\ pgPredictions' = IF loads[l].pred.st = "ok" THEN loads[l].pred.data ELSE pgPredictions
    /\ pgActive' = ActiveAfter(loads[l])
    /\ pgHistory' = HistoryAfter(loads[l])
    /\ pgAllAlerts' = pgActive' \o pgHistory'
    /\ loads' = [loads EXCEPT ![l] = IdleLoad]

TimerLoadDone(l) ==
    /\ loadAlerts(l)
    /\ UNCHANGED <<srvAlerts, srvZones, targetZone, pgToast, ackReq, NotPage>>

Range(list) == {list[i] : i \in DOMAIN list}

\* prediction.js 1762-1774: the acknowledge button of an active alert's card
acknowledgeAlertFromPage(a) ==
    /\ ackReq.stage = "none"
    /\ a \in Range(pgActive)
    /\ ackReq' = [stage |-> "sent", alert |-> a]
    /\ UNCHANGED <<srvAlerts, srvZones, targetZone, pgZones, pgAllZoneNames, pgActive,
                   pgHistory, pgAllAlerts, pgPredictions, pgToast, loads, NotPage>>

\* acknowledge(alert_id, user) at the server: ACTIVE becomes ACKNOWLEDGED,
\* an acknowledged alert stays as it is
Acknowledged(state) == IF state = "ACTIVE" THEN "ACKNOWLEDGED" ELSE state

\* POST /alerts/acknowledge at the server
ServerHandlesAck(ok) ==
    /\ ackReq.stage = "sent"
    /\ IF ok
       THEN /\ srvAlerts' = [srvAlerts EXCEPT ![ackReq.alert] = Acknowledged(@)]
            /\ ackReq' = [ackReq EXCEPT !.stage = "ok"]
       ELSE /\ ackReq' = [ackReq EXCEPT !.stage = "failed"]
            /\ UNCHANGED srvAlerts
    /\ UNCHANGED <<srvZones, targetZone, pgZones, pgAllZoneNames, pgActive,
                   pgHistory, pgAllAlerts, pgPredictions, pgToast, loads, NotPage>>

\* prediction.js 1776-1777: the response is ok, loadAlerts is awaited
AckOk ==
    /\ ackReq.stage = "ok"
    /\ ackReq' = [ackReq EXCEPT !.stage = "reloading"]
    /\ loads' = [loads EXCEPT ![AckLoad] = StartedLoad]
    /\ UNCHANGED <<srvAlerts, srvZones, targetZone, pgZones, pgAllZoneNames, pgActive,
                   pgHistory, pgAllAlerts, pgPredictions, pgToast, NotPage>>

\* prediction.js 1777-1778: that loadAlerts has ended
AckLoadDone ==
    /\ ackReq.stage = "reloading"
    /\ loadAlerts(AckLoad)
    /\ pgToast' = showSuccess("alert_acknowledged")
    /\ ackReq' = NoAck
    /\ UNCHANGED <<srvAlerts, srvZones, targetZone, NotPage>>

\* prediction.js 1779-1787: the response is not ok, or fetch threw
AckFailed ==
    /\ ackReq.stage = "failed"
    /\ pgToast' = showError("acknowledge_failed")
    /\ ackReq' = NoAck
    /\ UNCHANGED <<srvAlerts, srvZones, targetZone, pgZones, pgAllZoneNames, pgActive,
                   pgHistory, pgAllAlerts, pgPredictions, loads, NotPage>>

\* an alert is acknowledged from elsewhere (the notification card, another
\* operator)
AcknowledgedElsewhere(a) ==
    /\ srvAlerts[a] = "ACTIVE"
    /\ srvAlerts' = [srvAlerts EXCEPT ![a] = Acknowledged(@)]
    /\ UNCHANGED <<srvZones, targetZone, pgZones, pgAllZoneNames, pgActive, pgHistory,
                   pgAllAlerts, pgPredictions, pgToast, loads, ackReq, NotPage>>

\* the zones deleted while the alerts page is open
MaxDeletes == 1

\* a zone is deleted on the zones page (DELETE /zones/{id})
ZoneDeletedElsewhere(i) ==
    /\ i \in DOMAIN srvZones
    /\ Len(ZoneCatalog) - Len(srvZones) < MaxDeletes
    /\ srvZones' = [k \in 1 .. (Len(srvZones) - 1) |-> IF k < i THEN srvZones[k] ELSE srvZones[k + 1]]
    /\ UNCHANGED <<srvAlerts, targetZone, pgZones, pgAllZoneNames, pgActive, pgHistory,
                   pgAllAlerts, pgPredictions, pgToast, loads, ackReq, NotPage>>

\* prediction.js 1825-1829: the test alert button; the request is sent
testAlert ==
    /\ testReq = "none"
    /\ testReq' = "sent"
    /\ UNCHANGED <<srvZones, settingsReq, pageVars, NotPageTool>>

\* prediction.js 1831-1839: POST /alerts/test is answered.  A response that
\* is ok shows the message and sets the 2 second timer of loadAlerts; one
\* that is not ok shows nothing; a fetch that threw shows the error
TestAlertAnswered(outcome) ==
    /\ testReq = "sent"
    /\ testReq' = IF outcome = "ok" THEN "timer" ELSE "none"
    /\ pgToast' = CASE outcome = "ok" -> showSuccess("test_alert_created")
                    [] outcome = "rejected" -> showError("test_alert_failed")
                    [] OTHER -> pgToast
    /\ UNCHANGED <<srvAlerts, srvZones, targetZone, pgZones, pgAllZoneNames, pgActive,
                   pgHistory, pgAllAlerts, pgPredictions, loads, ackReq, settingsReq,
                   NotPageTool>>

\* prediction.js 1833: the timer of testAlert fires and loadAlerts starts,
\* as one of the loads the page itself starts
TestReloadStarts ==
    /\ testReq = "timer"
    /\ \E l \in TimerLoads : loads[l].stage = "idle"
    /\ loads' = [loads EXCEPT ![FreeTimerLoad] = StartedLoad]
    /\ testReq' = "none"
    /\ UNCHANGED <<srvAlerts, srvZones, targetZone, pgZones, pgAllZoneNames, pgActive,
                   pgHistory, pgAllAlerts, pgPredictions, pgToast, ackReq, settingsReq,
                   NotPageTool>>

\* prediction.js 1945-1961: the settings form is submitted; the request is
\* sent
saveSettings ==
    /\ settingsReq = "none"
    /\ settingsReq' = "sent"
    /\ UNCHANGED <<srvZones, testReq, pageVars, NotPageTool>>

\* prediction.js 1963-1971: POST /settings/update is answered; a response
\* that is not ok throws into the catch, as a fetch that threw
SettingsAnswered(ok) ==
    /\ settingsReq = "sent"
    /\ settingsReq' = "none"
    /\ pgToast' = IF ok THEN showSuccess("settings_updated")
                  ELSE showError("settings_update_failed")
    /\ UNCHANGED <<srvAlerts, srvZones, targetZone, pgZones, pgAllZoneNames, pgActive,
                   pgHistory, pgAllAlerts, pgPredictions, loads, ackReq, testReq,
                   NotPageTool>>

PageToolInit == testReq = "none" /\ settingsReq = "none"
PageToolIdle == PageToolInit

PageInit ==
    /\ srvAlerts = [a \in AlertIds |-> "ACTIVE"]
    /\ srvZones = ZoneCatalog
    /\ targetZone \in {NoTarget, TargetNW}
    /\ pgZones = <<>>
    /\ pgAllZoneNames = <<>>
    /\ pgActive = <<>>
    /\ pgHistory = <<>>
    /\ pgAllAlerts = <<>>
    /\ pgPredictions = <<>>
    /\ pgToast = NoToast
    /\ loads = [l \in Loaders |-> IdleLoad]
    /\ ackReq = NoAck
PageIdle ==
    /\ srvAlerts = [a \in AlertIds |-> "ACTIVE"]
    /\ targetZone = NoTarget
    /\ pgZones = <<>>
    /\ pgAllZoneNames = <<>>
    /\ pgActive = <<>>
    /\ pgHistory = <<>>
    /\ pgAllAlerts = <<>>
    /\ pgPredictions = <<>>
    /\ pgToast = NoToast
    /\ loads = [l \in Loaders |-> IdleLoad]
    /\ ackReq = NoAck

\* no request of testAlert or saveSettings is under way
ToolsQuiet == testReq = "none" /\ settingsReq = "none"

\* the user acknowledges from a card between two refreshes and no refresh
\* starts before that acknowledgement has ended (SpecAckAll has the
\* acknowledgements that overlap a refresh).  The user does one thing at a
\* time: an acknowledgement, a test alert or the settings form is begun
\* when none of the others is under way
NextPage ==
    \/ (StartTimerLoad /\ ackReq.stage = "none")
    \/ AnyFetchAnswered
    \/ \E l \in TimerLoads : TimerLoadDone(l)
    \/ \E a \in AlertIds :
          /\ acknowledgeAlertFromPage(a)
          /\ \A l \in TimerLoads : loads[l].stage = "idle"
          /\ ToolsQuiet
    \/ \E ok \in BOOLEAN : ServerHandlesAck(ok)
    \/ AckOk
    \/ AckLoadDone
    \/ AckFailed
    \/ \E a \in AlertIds : AcknowledgedElsewhere(a)
    \/ \E i \in 1 .. Len(ZoneCatalog) : ZoneDeletedElsewhere(i)
    \/ (testAlert /\ ackReq.stage = "none" /\ ToolsQuiet)
    \/ \E outcome \in {"ok", "not_ok", "rejected"} : TestAlertAnswered(outcome)
    \/ TestReloadStarts
    \/ (saveSettings /\ ackReq.stage = "none" /\ ToolsQuiet)
    \/ \E ok \in BOOLEAN : SettingsAnswered(ok)

\* C3: without a zone in the URL, every alert in
\* alertsPageState.activeAlerts belongs to at least one zone name of
\* alertsPageState.allZoneNames (by metadata.matched_zones or by
\* 'Zone: <name>' in its location name), whichever fetches failed.
C3_ActiveAlertsBelongToZones ==
    targetZone = NoTarget =>
        \A a \in Range(pgActive) :
            \E k \in DOMAIN pgAllZoneNames : InZone(AlertCatalog[a], pgAllZoneNames[k])

\* C4: no alert_id is in both alertsPageState.activeAlerts and
\* alertsPageState.alertHistory.
C4_NeverActiveAndHistory == Range(pgActive) \cap Range(pgHistory) = {}

(***************************************************************************)
(* Alert notifications: alert-system.js polls the active alerts, shows a   *)
(* card for each new one and acknowledges an alert from its card.          *)
(***************************************************************************)
\* the checkForNewAlerts calls that wait for their response at the same time
MaxPolls == 1
\* the acknowledgeAlert calls that wait for their response at the same time
MaxAcks == 1

\* slot 0 is the request of loadActiveAlerts, the others those of the timer
PollSlots == 0 .. MaxPolls
AckSlots == 1 .. MaxAcks

NoPoll == [stage |-> "none", data |-> <<>>]
NoAlertAck == [stage |-> "none", alert |-> 0]

\* alert-system.js 18-37: startAlertPolling, then loadActiveAlerts sends
\* its request
initAlertSystem ==
    /\ alertPc = "start"
    /\ alertPc' = "polling"
    /\ alertPolls' = [alertPolls EXCEPT ![0] = [stage |-> "sent", data |-> <<>>]]
    /\ UNCHANGED <<srvAlerts, activeAlerts, alertCards, dismissing, notifications, alertAcks,
                   alertToast, hasToasts, ackedOk, alertModal, NotAlerts>>

\* alert-system.js 83-88, 103-105: the interval fires, checkForNewAlerts
\* sends its request
PollTimerFires ==
    /\ alertPc = "polling"
    /\ \E s \in 1 .. MaxPolls :
         /\ alertPolls[s].stage = "none"
         /\ \A r \in 1 .. (s - 1) : alertPolls[r].stage # "none"
         /\ alertPolls' = [alertPolls EXCEPT ![s] = [stage |-> "sent", data |-> <<>>]]
    /\ UNCHANGED <<srvAlerts, alertPc, activeAlerts, alertCards, dismissing, notifications, alertAcks,
                   alertToast, hasToasts, ackedOk, alertModal, NotAlerts>>

\* GET /alerts/active at the server
ServerAnswersPoll(s) ==
    /\ alertPolls[s].stage = "sent"
    /\ alertPolls' = [alertPolls EXCEPT ![s] = [stage |-> "ok", data |-> ServerActive]]
    /\ UNCHANGED <<srvAlerts, alertPc, activeAlerts, alertCards, dismissing, notifications, alertAcks,
                   alertToast, hasToasts, ackedOk, alertModal, NotAlerts>>

PollFails_ClearsList(s) ==
    /\ alertPolls[s].stage = "sent"
    /\ alertPolls' = [alertPolls EXCEPT ![s] = NoPoll]
    /\ activeAlerts' = <<>>
    /\ UNCHANGED <<srvAlerts, alertPc, alertCards, dismissing, notifications, alertAcks,
                   alertToast, hasToasts, ackedOk, alertModal, NotAlerts>>

\* alert-system.js 105-107, 123-127, 135-137, 149-151: the response is not
\* ok or fetch threw, nothing changes
PollFails(s) ==
    /\ alertPolls[s].stage = "sent"
    /\ alertPolls' = [alertPolls EXCEPT ![s] = NoPoll]
    /\ UNCHANGED <<srvAlerts, alertPc, activeAlerts, alertCards, dismissing, notifications, alertAcks,
                   alertToast, hasToasts, ackedOk, alertModal, NotAlerts>>

\* alert-system.js 111-119: the alerts of the response that are not in
\* alertState.activeAlerts
Unseen(newAlerts) == Range(newAlerts) \ Range(activeAlerts)

\* alert-system.js 103-122: the response is ok
checkForNewAlerts(s) ==
    /\ s # 0
    /\ alertPolls[s].stage = "ok"
    /\ alertCards' = [a \in AlertIds |->
           IF a \in Unseen(alertPolls[s].data) THEN alertCards[a] + 1 ELSE alertCards[a]]
    /\ notifications' = [a \in AlertIds |->
           IF a \in Unseen(alertPolls[s].data) THEN notifications[a] + 1 ELSE notifications[a]]
    /\ activeAlerts' = alertPolls[s].data
    /\ alertPolls' = [alertPolls EXCEPT ![s] = NoPoll]
    /\ UNCHANGED <<srvAlerts, alertPc, alertAcks, alertToast, hasToasts, ackedOk, dismissing,
                   alertModal, NotAlerts>>

\* alert-system.js 133-147: the response is ok
loadActiveAlerts ==
    /\ alertPolls[0].stage = "ok"
    /\ activeAlerts' = alertPolls[0].data
    /\ alertCards' = [a \in AlertIds |->
           IF a \in Range(alertPolls[0].data) THEN alertCards[a] + 1 ELSE alertCards[a]]
    /\ alertPolls' = [alertPolls EXCEPT ![0] = NoPoll]
    /\ UNCHANGED <<srvAlerts, alertPc, notifications, alertAcks, alertToast, hasToasts,
                   ackedOk, dismissing, alertModal, NotAlerts>>

\* alert-system.js 171: the severities of the alerts raised
Severity(a) == IF a = 1 THEN "CRITICAL" ELSE "LOW"

\* alert-system.js 351-370: getElementById finds the first card of the
\* alert, if there is one; its animation starts and a timer of 300 ms is
\* set.  The card stays in the container until that timer fires, so a
\* second call within that time finds the same card.
dismissAlert(leaving, alertId) ==
    [leaving EXCEPT ![alertId] = IF alertCards[alertId] > 0 /\ @ = 0 THEN 1 ELSE @]

\* alert-system.js 219: the close button of a card
DismissClicked(a) ==
    /\ alertCards[a] > 0
    /\ dismissing' = dismissAlert(dismissing, a)
    /\ UNCHANGED <<srvAlerts, alertPc, activeAlerts, alertCards, notifications, alertPolls,
                   alertAcks, alertToast, hasToasts, ackedOk, alertModal, NotAlerts>>

\* alert-system.js 171-176, 361-363: ten seconds after displayAlert has
\* shown a card of low or medium severity its timer calls
\* dismissAlertCard.  The timers fire in the order of the cards, so the
\* card is the first one that is not on its way out (the timer of a card
\* that is, or that has left, changes nothing)
AutoDismissed(a) ==
    /\ Severity(a) \in {"LOW", "MEDIUM"}
    /\ dismissing[a] < alertCards[a]
    /\ dismissing' = [dismissing EXCEPT ![a] = @ + 1]
    /\ UNCHANGED <<srvAlerts, alertPc, activeAlerts, alertCards, notifications, alertPolls,
                   alertAcks, alertToast, hasToasts, ackedOk, alertModal, NotAlerts>>

\* alert-system.js 365-369: the timer of dismissAlertCard fires, the card
\* leaves the container (later timers for the same card find it gone)
CardRemoved(a) ==
    /\ dismissing[a] > 0
    /\ alertCards' = [alertCards EXCEPT ![a] = @ - 1]
    /\ dismissing' = [dismissing EXCEPT ![a] = @ - 1]
    /\ UNCHANGED <<srvAlerts, alertPc, activeAlerts, notifications, alertPolls, alertAcks,
                   alertToast, hasToasts, ackedOk, alertModal, NotAlerts>>

\* alert-system.js 248, 340-343, 420-438: the details button of a
\* card, or a click on the browser notification; the modal opens, in
\* place of the one that is open, if the alert is in
\* alertState.activeAlerts
viewAlertDetails(a) ==
    /\ alertCards[a] > 0 \/ notifications[a] > 0
    /\ alertModal' = IF a \in Range(activeAlerts) THEN a ELSE alertModal
    /\ UNCHANGED <<srvAlerts, alertPc, activeAlerts, alertCards, dismissing, notifications,
                   alertPolls, alertAcks, alertToast, hasToasts, ackedOk, NotAlerts>>

\* alert-system.js 468, 527, 547-550: the modal is closed
ModalClosed ==
    /\ alertModal # 0
    /\ alertModal' = 0
    /\ UNCHANGED <<srvAlerts, alertPc, activeAlerts, alertCards, dismissing, notifications,
                   alertPolls, alertAcks, alertToast, hasToasts, ackedOk, NotAlerts>>

\* alert-system.js 263, 514, 375-390: the acknowledge button of a card, or
\* the one of the modal, which closes it; the request is sent
acknowledgeAlert(a, fromModal) ==
    /\ IF fromModal THEN alertModal = a ELSE alertCards[a] > 0
    /\ alertModal' = IF fromModal THEN 0 ELSE alertModal
    /\ \E k \in AckSlots :
         /\ alertAcks[k].stage = "none"
         /\ \A r \in 1 .. (k - 1) : alertAcks[r].stage # "none"
         /\ alertAcks' = [alertAcks EXCEPT ![k] = [stage |-> "sent", alert |-> a]]
    /\ UNCHANGED <<srvAlerts, alertPc, activeAlerts, alertCards, dismissing, notifications, alertPolls,
                   alertToast, hasToasts, ackedOk, NotAlerts>>

\* POST /alerts/acknowledge at the server, the request is accepted
ServerHandlesAlertAck(k) ==
    /\ alertAcks[k].stage = "sent"
    /\ alertAcks' = [alertAcks EXCEPT ![k].stage = "ok"]
    /\ srvAlerts' = [srvAlerts EXCEPT ![alertAcks[k].alert] = Acknowledged(@)]
    /\ UNCHANGED <<alertPc, activeAlerts, alertCards, dismissing, notifications, alertPolls,
                   alertToast, hasToasts, ackedOk, alertModal, NotAlerts>>

\* alert-system.js 393: the alert leaves alertState.activeAlerts
WithoutAlert_Toggle(list, alertId) ==
    IF alertId \in Range(list) THEN SelectSeq(list, LAMBDA a : a # alertId)
    ELSE Append(list, alertId)
WithoutAlert(list, alertId) == SelectSeq(list, LAMBDA a : a # alertId)

\* alert-system.js 399-401, 404-406, 411-413: the message, if the page has
\* the toasts of prediction.js
AckMessage(outcome) ==
    IF ~hasToasts THEN alertToast
    ELSE IF outcome = "ok" THEN showSuccess("alert_acknowledged")
    ELSE IF outcome = "refused" THEN showError("acknowledgment_failed")
    ELSE showError("network_error")

\* the successes counted, up to the second one
MaxCounted == 2
Counted(n) == IF n < MaxCounted THEN n + 1 ELSE n

\* alert-system.js 391-402: the response of the acknowledge request is ok
AckResponse(k) ==
    /\ alertAcks[k].stage = "ok"
    /\ activeAlerts' = WithoutAlert(activeAlerts, alertAcks[k].alert)
    /\ dismissing' = dismissAlert(dismissing, alertAcks[k].alert)
    /\ ackedOk' = [ackedOk EXCEPT ![alertAcks[k].alert] = Counted(@)]
    /\ alertToast' = AckMessage("ok")
    /\ alertAcks' = [alertAcks EXCEPT ![k] = NoAlertAck]
    /\ UNCHANGED <<srvAlerts, alertPc, alertCards, notifications, alertPolls, hasToasts,
                   alertModal, NotAlerts>>

\* alert-system.js 402-414: the server refuses the request, or it is not
\* reached; the server's alerts stay as they are
AckFails(k, outcome) ==
    /\ alertAcks[k].stage = "sent"
    /\ alertToast' = AckMessage(outcome)
    /\ alertAcks' = [alertAcks EXCEPT ![k] = NoAlertAck]
    /\ UNCHANGED <<srvAlerts, alertPc, activeAlerts, alertCards, dismissing, notifications, alertPolls,
                   hasToasts, ackedOk, alertModal, NotAlerts>>

\* the dispatcher creates the alert: none becomes ACTIVE
AlertRaised(a) ==
    /\ srvAlerts[a] = "none"
    /\ srvAlerts' = [srvAlerts EXCEPT ![a] = "ACTIVE"]
    /\ UNCHANGED <<alertVars, NotAlerts>>

AlertsInit ==
    /\ srvAlerts = [a \in AlertIds |-> "none"]
    /\ alertPc = "start"
    /\ activeAlerts = <<>>
    /\ alertCards = [a \in AlertIds |-> 0]
    /\ notifications = [a \in AlertIds |-> 0]
    /\ alertPolls = [s \in PollSlots |-> NoPoll]
    /\ alertAcks = [k \in AckSlots |-> NoAlertAck]
    /\ alertToast = NoToast
    /\ hasToasts \in BOOLEAN
    /\ ackedOk = [a \in AlertIds |-> 0]
    /\ dismissing = [a \in AlertIds |-> 0]
    /\ alertModal = 0
AlertsIdle ==
    /\ alertPc = "start"
    /\ activeAlerts = <<>>
    /\ alertCards = [a \in AlertIds |-> 0]
    /\ notifications = [a \in AlertIds |-> 0]
    /\ alertPolls = [s \in PollSlots |-> NoPoll]
    /\ alertAcks = [k \in AckSlots |-> NoAlertAck]
    /\ alertToast = NoToast
    /\ hasToasts = TRUE
    /\ ackedOk = [a \in AlertIds |-> 0]
    /\ dismissing = [a \in AlertIds |-> 0]
    /\ alertModal = 0

\* the details modal stays closed (NextAlertModal opens it)
NextAlerts ==
    \/ initAlertSystem
    \/ PollTimerFires
    \/ \E s \in PollSlots : ServerAnswersPoll(s)
    \/ \E s \in PollSlots : PollFails(s)
    \/ \E s \in PollSlots : checkForNewAlerts(s)
    \/ loadActiveAlerts
    \/ \E a \in AlertIds : DismissClicked(a)
    \/ \E a \in AlertIds : AutoDismissed(a)
    \/ \E a \in AlertIds : CardRemoved(a)
    \/ \E a \in AlertIds, fromModal \in BOOLEAN : acknowledgeAlert(a, fromModal)
    \/ \E k \in AckSlots : ServerHandlesAlertAck(k)
    \/ \E k \in AckSlots : AckResponse(k)
    \/ \E k \in AckSlots, outcome \in {"refused", "unreachable"} : AckFails(k, outcome)
    \/ \E a \in AlertIds : AlertRaised(a)

\* the same page with the details modal, while the dispatcher raises the
\* alert of low severity only
NextAlertModal ==
    \/ (NextAlerts /\ srvAlerts'[1] = "none")
    \/ \E a \in AlertIds : viewAlertDetails(a)
    \/ ModalClosed

\* the step in which acknowledgeAlert(id) succeeds once more
SecondAckSucceeds(k) ==
    /\ alertAcks[k].stage = "ok"
    /\ ackedOk[alertAcks[k].alert] >= 1
    /\ AckResponse(k)

\* C2: acknowledging an alert again is no error and changes nothing more:
\* when acknowledgeAlert(id) succeeds after an earlier success, the server
\* still holds the alert as ACKNOWLEDGED, alertState.activeAlerts has no
\* alert with that id and keeps every other alert (it is unchanged if the
\* id was not in it), and no error message is shown.
C2_AcknowledgeIdempotent ==
    [][\A k \in AckSlots :
          SecondAckSucceeds(k) =>
              /\ srvAlerts'[alertAcks[k].alert] = "ACKNOWLEDGED"
              /\ alertAcks[k].alert \notin Range(activeAlerts')
              /\ activeAlerts' = SelectSeq(activeAlerts, LAMBDA a : a # alertAcks[k].alert)
              /\ (alertAcks[k].alert \notin Range(activeAlerts) => activeAlerts' = activeAlerts)
              /\ alertToast'.kind # "error"]_vars

\* an alert has been acknowledged twice with success while another alert
\* is still listed
C2_Witness ==
    \E id \in AlertIds :
        /\ ackedOk[id] = 2
        /\ id \notin Range(activeAlerts)
        /\ activeAlerts # <<>>
        /\ alertToast.kind = "success"

\* C11: an alert that the server lists as active all the time gets at
\* most one card and at most one sound and browser notification, however
\* loadActiveAlerts and the polls interleave.
C11_NotifiedAtMostOnce ==
    \A a \in AlertIds :
        srvAlerts[a] = "ACTIVE" => alertCards[a] <= 1 /\ notifications[a] <= 1

\* C12: once acknowledgeAlert(id) has succeeded no response of a
\* checkForNewAlerts poll, one sent before the acknowledgement included,
\* puts the id back into alertState.activeAlerts, shows a card for it or
\* notifies it again.
C12_AcknowledgedStaysOut ==
    [][\A s \in PollSlots, a \in AlertIds :
          (checkForNewAlerts(s) /\ ackedOk[a] >= 1) =>
              /\ a \notin Range(activeAlerts')
              /\ alertCards'[a] = alertCards[a]
              /\ notifications'[a] = notifications[a]]_vars

\* C17: a poll or an acknowledgement that fails leaves
\* alertState.activeAlerts and the alert cards exactly as they were, and
\* the polling interval stays set (a failed poll frees its request).
C17_FailureChangesNothing ==
    [][/\ \A s \in PollSlots :
            PollFails(s) => /\ UNCHANGED <<activeAlerts, alertCards, notifications>>
                            /\ alertPc' = "polling"
                            /\ alertPolls'[s] = NoPoll
       /\ \A k \in AckSlots, outcome \in {"refused", "unreachable"} :
            AckFails(k, outcome) => /\ UNCHANGED <<activeAlerts, alertCards, notifications>>
                                    /\ alertPc' = "polling"]_vars

\* an acknowledgement has failed while an alert is listed with its card
C17_Witness ==
    /\ alertToast.kind = "error"
    /\ activeAlerts # <<>>
    /\ \E a \in Range(activeAlerts) : alertCards[a] > 0

(***************************************************************************)
(* AlertDispatcher: the state machine none -> ACTIVE -> ACKNOWLEDGED over  *)
(* (zone, hazard) keys.  Monitor ticks run in parallel; the check-then-    *)
(* create step of a key is serialized by a lock per key.                   *)
(***************************************************************************)
\* the monitor ticks that run at the same time
MaxTicks == 2
\* the alerts created in all
MaxAlerts == 3

TickIds == 1 .. MaxTicks
Keys == {<<1, "fire">>, <<1, "flood">>}
NoKey == <<0, "none">>

IdleTick == [pc |-> "idle", key |-> NoKey, sawActive |-> FALSE, found |-> FALSE,
             result |-> "none"]

\* an ACTIVE alert exists for the key
HasActive(key) == \E i \in DOMAIN alerts : alerts[i].key = key /\ alerts[i].state = "ACTIVE"

\* a tick's assessment qualifies and is matched to a zone
TickQualifies(t, key) ==
    /\ ticks[t].pc = "idle"
    /\ ticks' = [ticks EXCEPT ![t] = [pc |-> "waiting", key |-> key,
                                       sawActive |-> HasActive(key), found |-> FALSE,
                                       result |-> "none"]]
    /\ UNCHANGED <<alerts, keyLock, NotDispatch>>

\* serialize per key: the lock of the key is free
LockFree_Always(key) == TRUE
LockFree(key) == keyLock[key] = 0

AcquireKey(t) ==
    /\ ticks[t].pc = "waiting"
    /\ LockFree(ticks[t].key)
    /\ keyLock' = [keyLock EXCEPT ![ticks[t].key] = t]
    /\ ticks' = [ticks EXCEPT ![t].pc = "checking"]
    /\ UNCHANGED <<alerts, NotDispatch>>

\* if no ACTIVE alert exists for that key ...
CheckActive(t) ==
    /\ ticks[t].pc = "checking"
    /\ ticks' = [ticks EXCEPT ![t].pc = "creating", ![t].found = HasActive(ticks[t].key)]
    /\ UNCHANGED <<alerts, keyLock, NotDispatch>>

\* ... create one (ACTIVE); if one already exists, suppress the duplicate
CreateOrSuppress(t) ==
    /\ ticks[t].pc = "creating"
    /\ IF ticks[t].found
       THEN /\ alerts' = alerts
            /\ ticks' = [ticks EXCEPT ![t].pc = "done", ![t].result = "suppressed"]
       ELSE /\ Len(alerts) < MaxAlerts
            /\ alerts' = Append(alerts, [key |-> ticks[t].key, state |-> "ACTIVE"])
            /\ ticks' = [ticks EXCEPT ![t].pc = "done", ![t].result = "created"]
    /\ keyLock' = [keyLock EXCEPT ![ticks[t].key] = 0]
    /\ UNCHANGED NotDispatch

\* the tick ends, the next one of the worker can start
TickEnds(t) ==
    /\ ticks[t].pc = "done"
    /\ ticks' = [ticks EXCEPT ![t] = IdleTick]
    /\ UNCHANGED <<alerts, keyLock, NotDispatch>>

\* acknowledge(alert_id, user): ACTIVE -> ACKNOWLEDGED, a no-op on an
\* acknowledged alert
acknowledge(i) ==
    /\ i \in DOMAIN alerts
    /\ alerts' = [alerts EXCEPT ![i].state = Acknowledged(@)]
    /\ UNCHANGED <<keyLock, ticks, NotDispatch>>

DispatchInit ==
    /\ alerts = <<>>
    /\ keyLock = [key \in Keys |-> 0]
    /\ ticks = [t \in TickIds |-> IdleTick]
DispatchIdle == DispatchInit

NextDispatch ==
    \/ \E t \in TickIds, key \in Keys : TickQualifies(t, key)
    \/ \E t \in TickIds : AcquireKey(t)
    \/ \E t \in TickIds : CheckActive(t)
    \/ \E t \in TickIds : CreateOrSuppress(t)
    \/ \E t \in TickIds : TickEnds(t)
    \/ \E i \in 1 .. MaxAlerts : acknowledge(i)

ActiveOf(key) == {i \in DOMAIN alerts : alerts[i].key = key /\ alerts[i].state = "ACTIVE"}

\* C1: AlertDispatcher never holds two ACTIVE alerts for the same
\* (zone, hazard) key, however the check-then-create steps of the ticks
\* interleave: a tick that finds an ACTIVE alert of its key creates none.
C1_OneActivePerKey == \A key \in Keys : Cardinality(ActiveOf(key)) <= 1

\* two ticks found the same condition while no alert of the key was ACTIVE;
\* one has created the alert, the other was suppressed
C1_Witness ==
    \E t, u \in TickIds :
        /\ ticks[t].key = ticks[u].key
        /\ ~ticks[t].sawActive /\ ~ticks[u].sawActive
        /\ ticks[t].result = "created"
        /\ ticks[u].result = "suppressed"
        /\ Cardinality(ActiveOf(ticks[t].key)) = 1

(***************************************************************************)
(* Promoting a prediction to an alert and viewing an alert's details       *)
(* (alerts page).  Scores are in thousandths.                              *)
(***************************************************************************)
ScoreDen == 1000

\* prediction.js 1523: the confidence sent when the score is falsy
DefaultRiskScore == 900
\* prediction.js 1709: the probability shown when confidence * 100 is falsy
DefaultProbability == 880

\* the values of a score: absent, 0, and some between 0 and 1
ScoreValues == {Undefined, 0, 1, 450, 900, 1000}
ThreatNames == {"fire", "flood", "cyclone"}

\* JavaScript truthiness of a number that may be absent (undefined, NaN)
Truthy(v) == v # Undefined /\ v # 0

NoScores == [t \in ThreatNames |-> Undefined]

\* a prediction of alertsPageState.predictions; hasScores is FALSE when
\* pred.risk_scores is missing
PromoPredictions ==
    {[primary_threat |-> t, hasScores |-> TRUE, risk_scores |-> [NoScores EXCEPT ![t] = v]] :
         t \in ThreatNames, v \in ScoreValues}
    \cup {[primary_threat |-> "fire", hasScores |-> FALSE, risk_scores |-> NoScores]}

\* an alert of alertsPageState.allAlerts with its metadata.confidence
PromoAlerts == {[confidence |-> v] : v \in ScoreValues}

NoPromoReq == [stage |-> "none", threat |-> "none", confidence |-> Undefined]
NoPromoAlert == [confidence |-> Undefined]

\* prediction.js 1521-1523
riskScore(pred) ==
    IF pred.hasScores /\ Truthy(pred.risk_scores[pred.primary_threat])
    THEN pred.risk_scores[pred.primary_threat]
    ELSE DefaultRiskScore

\* prediction.js 1460-1500, 1404-1407: displayPredictions builds the cards
\* anew; for a prediction without risk_scores line 1490 throws before the
\* list is replaced, the cards stay as they were and loadAlerts shows its
\* error message.  The result is <<promoCard, promoToast>>.
displayPredictions(pred) ==
    IF pred.hasScores
    THEN <<TRUE, promoToast>>
    ELSE <<promoCard, showError("link_interrupted")>>

\* prediction.js 1394-1403: a loadAlerts has stored the predictions it
\* fetched and displays them
PredictionShown(pred) ==
    /\ promoReq.stage = "none"
    /\ promoPred' = pred
    /\ promoCard' = displayPredictions(pred)[1]
    /\ promoToast' = displayPredictions(pred)[2]
    /\ UNCHANGED <<promoReq, promoAlert, promoShown, NotPromo>>

\* prediction.js 1503-1545: the button of the card; the payload is sent
\* unless the user declines the confirmation
createAlertFromPrediction(confirmed) ==
    /\ promoCard
    /\ promoReq.stage = "none"
    /\ promoReq' = IF confirmed
                   THEN [stage |-> "sent", threat |-> promoPred.primary_threat,
                         confidence |-> riskScore(promoPred)]
                   ELSE promoReq
    /\ UNCHANGED <<promoPred, promoAlert, promoShown, promoToast, promoCard, NotPromo>>

\* prediction.js 1547-1558: the response.  When it is ok the message is
\* shown and loadAlerts is awaited
PromoteAnswered(ok) ==
    /\ promoReq.stage = "sent"
    /\ IF ok
       THEN /\ promoReq' = [promoReq EXCEPT !.stage = "reloading"]
            /\ promoToast' = showSuccess("alert_dispatched")
            /\ loads' = [loads EXCEPT ![PromoteLoad] = StartedLoad]
       ELSE /\ promoReq' = [promoReq EXCEPT !.stage = "none"]
            /\ promoToast' = showError("promote_failed")
            /\ UNCHANGED loads
    /\ UNCHANGED <<promoPred, promoAlert, promoShown, promoCard, srvAlerts, srvZones,
                   targetZone, pgZones, pgAllZoneNames, pgActive, pgHistory, pgAllAlerts,
                   pgPredictions, pgToast, ackReq, NotPromoPage>>

\* prediction.js 1549, 1306-1407: that loadAlerts has ended; the state of
\* the page is replaced, and with it the prediction the card's index
\* stands for when the predictions were fetched, and the predictions are
\* displayed
PromoteLoadDone(pred) ==
    /\ promoReq.stage = "reloading"
    /\ loadAlerts(PromoteLoad)
    /\ promoPred' = IF loads[PromoteLoad].pred.st = "ok" THEN pred ELSE promoPred
    /\ promoCard' = displayPredictions(promoPred')[1]
    /\ promoToast' = displayPredictions(promoPred')[2]
    /\ promoReq' = [promoReq EXCEPT !.stage = "none"]
    /\ UNCHANGED <<promoAlert, promoShown, srvAlerts, srvZones, targetZone,
                   pgToast, ackReq, NotPromoPage>>

\* prediction.js 1709: (alert.metadata?.confidence * 100 || 88).toFixed(1)
Probability(alert) ==
    IF Truthy(alert.confidence) THEN alert.confidence ELSE DefaultProbability

\* prediction.js 1693-1750
viewAlertDetail(alert) ==
    /\ promoAlert' = alert
    /\ promoShown' = Probability(alert)
    /\ UNCHANGED <<promoPred, promoReq, promoToast, promoCard, NotPromo>>

\* the page after its first loadAlerts (1394-1407) has stored and displayed
\* the prediction: with risk_scores its card is there; without them
\* displayPredictions has thrown and the error message has been shown
PromoInit ==
    /\ promoPred \in PromoPredictions
    /\ promoReq = NoPromoReq
    /\ promoAlert = NoPromoAlert
    /\ promoShown = Undefined
    /\ promoToast = IF promoPred.hasScores THEN NoToast ELSE showError("link_interrupted")
    /\ promoCard = promoPred.hasScores
PromoIdle ==
    /\ promoPred = [primary_threat |-> "fire", hasScores |-> FALSE, risk_scores |-> NoScores]
    /\ promoReq = NoPromoReq
    /\ promoAlert = NoPromoAlert
    /\ promoShown = Undefined
    /\ promoToast = NoToast
    /\ promoCard = FALSE

NextPromo ==
    \/ \E pred \in PromoPredictions : PredictionShown(pred)
    \/ \E confirmed \in BOOLEAN : createAlertFromPrediction(confirmed)
    \/ \E ok \in BOOLEAN : PromoteAnswered(ok)
    \/ LoadFetchAnswered(PromoteLoad)
    \/ \E pred \in PromoPredictions : PromoteLoadDone(pred)
    \/ \E alert \in PromoAlerts : viewAlertDetail(alert)

\* C13: a score that is present is passed through unchanged, 0 included:
\* the payload carries the prediction's score of its primary threat as
\* confidence, and the modal shows the alert's metadata.confidence.
C13_ConfidencePassedThrough ==
    /\ (/\ promoReq.stage = "sent"
        /\ promoPred.hasScores
        /\ promoPred.risk_scores[promoPred.primary_threat] # Undefined)
           => promoReq.confidence = promoPred.risk_scores[promoPred.primary_threat]
    /\ (promoShown # Undefined /\ promoAlert.confidence # Undefined)
           => promoShown = promoAlert.confidence

(***************************************************************************)
(* Prediction page: selecting a location fills the inputs, resolves a      *)
(* generic name, and runs the prediction of whatever the inputs then hold. *)
(***************************************************************************)
\* the calls that wait for a response at the same time
MaxCalls == 2
CallIds == 1 .. MaxCalls

PdLocations == {1, 2}
TargetZoneName == "Target Zone"
NameOf(loc) == IF loc = 1 THEN "A" ELSE "B"
\* `${lat}, ${lon}`
CoordName(loc) == IF loc = 1 THEN "1.0, 1.0" ELSE "2.0, 2.0"

\* prediction.js 159: the names that make fillPredictionInputs ask the
\* geocoder ("" stands for a name that is missing)
GenericNames == {"", TargetZoneName, "Coordinate Scan", "Current Location"}
\* how often the user types into an input of the page
MaxTyped == 1
\* what the user types into the search box or into the name input
SearchTexts == {"", "q"}
\* the geocoder's answer: an address with a place name, an answer without
\* one, no answer that can be read
GeocoderAnswers == {"address", "noaddress", "failed"}

IdleCall == [pc |-> "idle", loc |-> 0, name |-> "", latest |-> FALSE]
NoReport == [name |-> "", data |-> 0]

\* the lowest call that is not waiting
FreeCall(c) ==
    /\ pdCalls[c].pc = "idle"
    /\ \A d \in 1 .. (c - 1) : pdCalls[d].pc # "idle"

\* prediction.js 89-94: the name runPrediction reads from the inputs
RunNameOf(nameInput, searchInput) ==
    IF nameInput = "" \/ nameInput = TargetZoneName
    THEN IF searchInput # "" THEN searchInput ELSE TargetZoneName
    ELSE nameInput

\* prediction.js 86-108: runPrediction up to its request, with the inputs
\* as they are; the call c that waits for the response.  Without
\* coordinates showNoPredictionMessage (574-596) heads the results with
\* 'No Location Selected' and leaves the assessment cards as they are, and
\* the call returns
runPredictionWith(c, latLon, nameInput, searchInput, calls, latest) ==
    IF latLon = 0
    THEN /\ pdCalls' = [calls EXCEPT ![c] = IdleCall]
         /\ pdReport' = [pdReport EXCEPT !.name = "No Location Selected"]
         /\ pdView' = [loading |-> FALSE, results |-> TRUE]
    ELSE /\ pdCalls' = [calls EXCEPT ![c] = [pc |-> "predicting", loc |-> latLon,
                                             name |-> RunNameOf(nameInput, searchInput),
                                             latest |-> latest]]
         /\ pdReport' = pdReport
         /\ pdView' = [loading |-> TRUE, results |-> FALSE]

\* history: the calls of earlier selections are no longer the latest
Superseded == [d \in CallIds |-> [pdCalls[d] EXCEPT !.latest = FALSE]]

\* prediction.js 144-188 with a name: the inputs are filled and
\* runPrediction is called at once
SelectNamed(c, loc) ==
    /\ FreeCall(c)
    /\ pdLatLon' = loc
    /\ pdNameInput' = NameOf(loc)
    /\ pdSearchInput' = NameOf(loc)
    /\ pdLastSelected' = loc
    /\ pdLastDone' = "none"
    /\ pdEdited' = FALSE
    /\ UNCHANGED pdTyped
    /\ runPredictionWith(c, loc, NameOf(loc), NameOf(loc), Superseded, TRUE)
    /\ UNCHANGED NotPred

\* prediction.js 144-165 with a generic name (and coordinates that are not
\* 0): the coordinates are filled and the name is asked from the geocoder;
\* the call keeps the name it was given.  usePredictionGPS (549-550) writes
\* the name into the search box first when the geocoder it asked itself
\* knew no place name ('Current Location')
SelectGeneric(c, loc, name, fromGps) ==
    /\ FreeCall(c)
    /\ fromGps => name = "Current Location"
    /\ pdSearchInput' = IF fromGps THEN name ELSE pdSearchInput
    /\ pdLatLon' = loc
    /\ pdLastSelected' = loc
    /\ pdLastDone' = "none"
    /\ pdEdited' = FALSE
    /\ UNCHANGED pdTyped
    /\ pdCalls' = [Superseded EXCEPT ![c] = [pc |-> "geocoding", loc |-> loc,
                                             name |-> name, latest |-> TRUE]]
    /\ UNCHANGED <<pdNameInput, pdReport, pdView, NotPred>>

\* prediction.js 156-172: the name given, or 'Target Zone' when it is
\* missing, unless the geocoder answers; of its answer the place name, or
\* the coordinates when the address has none
displayName(name, loc, answer) ==
    CASE answer = "address" -> NameOf(loc)
      [] answer = "noaddress" -> CoordName(loc)
      [] OTHER -> IF name = "" THEN TargetZoneName ELSE name

\* prediction.js 166-187: the geocoder has answered or failed; the name
\* inputs are filled and runPrediction reads the inputs
GeocodeAnswered(c, answer) ==
    /\ pdCalls[c].pc = "geocoding"
    /\ pdNameInput' = displayName(pdCalls[c].name, pdCalls[c].loc, answer)
    /\ pdSearchInput' = pdNameInput'
    /\ runPredictionWith(c, pdLatLon, pdNameInput', pdSearchInput', pdCalls,
                         pdCalls[c].latest)
    /\ UNCHANGED <<pdLatLon, pdLastSelected, pdEdited, pdTyped, pdLastDone, NotPred>>

\* the user types into the search box
SearchTyped(text) ==
    /\ pdTyped < MaxTyped
    /\ pdTyped' = pdTyped + 1
    /\ pdSearchInput # text
    /\ pdSearchInput' = text
    /\ UNCHANGED <<pdLatLon, pdNameInput, pdLastSelected, pdEdited, pdCalls, pdReport, pdView,
                   pdLastDone, NotPred>>

\* the user types into #locationName of the manual input zone
NameTyped(text) ==
    /\ pdTyped < MaxTyped
    /\ pdTyped' = pdTyped + 1
    /\ pdNameInput # text
    /\ pdNameInput' = text
    /\ UNCHANGED <<pdLatLon, pdSearchInput, pdLastSelected, pdEdited, pdCalls, pdReport, pdView,
                   pdLastDone, NotPred>>

\* the user types the coordinates of a location into #latitude and
\* #longitude of the manual input zone, or empties them (0)
CoordinatesTyped(loc) ==
    /\ pdLatLon # loc
    /\ pdLatLon' = loc
    /\ pdEdited' = TRUE
    /\ pdTyped < MaxTyped
    /\ pdTyped' = pdTyped + 1
    /\ UNCHANGED <<pdNameInput, pdSearchInput, pdLastSelected, pdCalls, pdReport, pdView,
                   pdLastDone, NotPred>>

\* prediction.js 86-108: the Analyze button
AnalyzeClicked(c) ==
    /\ FreeCall(c)
    /\ runPredictionWith(c, pdLatLon, pdNameInput, pdSearchInput, pdCalls, FALSE)
    /\ UNCHANGED <<pdLatLon, pdNameInput, pdSearchInput, pdLastSelected, pdEdited, pdTyped, pdLastDone, NotPred>>

\* prediction.js 110-135, 213-230: the response is ok and well formed,
\* renderDetailedResults shows it under the name of the call
PredictionRendered(c) ==
    /\ pdCalls[c].pc = "predicting"
    /\ pdReport' = [name |-> pdCalls[c].name, data |-> pdCalls[c].loc]
    /\ pdView' = [loading |-> FALSE, results |-> TRUE]
    /\ pdCalls' = [pdCalls EXCEPT ![c] = IdleCall]
    /\ pdLastDone' = IF pdCalls[c].latest THEN "rendered" ELSE pdLastDone
    /\ UNCHANGED <<pdLatLon, pdNameInput, pdSearchInput, pdLastSelected, pdEdited, pdTyped, NotPred>>

\* prediction.js 110, 115-117, 136-140: the request fails or the answer is
\* malformed; alert() and hideLoading
PredictionFailed(c) ==
    /\ pdCalls[c].pc = "predicting"
    /\ pdView' = [pdView EXCEPT !.loading = FALSE]
    /\ pdCalls' = [pdCalls EXCEPT ![c] = IdleCall]
    /\ pdLastDone' = IF pdCalls[c].latest THEN "failed" ELSE pdLastDone
    /\ UNCHANGED <<pdLatLon, pdNameInput, pdSearchInput, pdLastSelected, pdEdited, pdTyped, pdReport, NotPred>>

PredInit ==
    /\ pdLatLon = 0
    /\ pdNameInput = ""
    /\ pdSearchInput = ""
    /\ pdLastSelected = 0
    /\ pdCalls = [c \in CallIds |-> IdleCall]
    /\ pdReport = NoReport
    /\ pdView = [loading |-> FALSE, results |-> FALSE]
    /\ pdLastDone = "none"
    /\ pdEdited = FALSE
    /\ pdTyped = 0
PredIdle == PredInit

NextPred ==
    \/ \E c \in CallIds, loc \in PdLocations : SelectNamed(c, loc)
    \/ \E c \in CallIds, loc \in PdLocations, name \in GenericNames, fromGps \in BOOLEAN :
          SelectGeneric(c, loc, name, fromGps)
    \/ \E c \in CallIds, answer \in GeocoderAnswers : GeocodeAnswered(c, answer)
    \/ \E text \in SearchTexts : SearchTyped(text)
    \/ \E text \in SearchTexts : NameTyped(text)
    \/ \E loc \in PdLocations \cup {0} : CoordinatesTyped(loc)
    \/ \E c \in CallIds : AnalyzeClicked(c)
    \/ \E c \in CallIds : PredictionRendered(c)
    \/ \E c \in CallIds : PredictionFailed(c)

\* the names a report of the location can carry: its place name, its
\* coordinates, the generic name it was selected with, or what the user
\* has typed into the search box or the name input
ReportNames(loc) == {NameOf(loc), CoordName(loc)} \cup GenericNames \cup SearchTexts

\* C14: once every call has completed, and the prediction of the location
\* selected last has arrived, the report on the page is that of this
\* location: its assessments, under one of its names (the place name, the
\* coordinates or the generic name when the place name could not be
\* resolved).  Coordinates the user has typed since are not a selection.
C14_ReportOfLastSelection ==
    (/\ \A c \in CallIds : pdCalls[c].pc = "idle"
     /\ pdLastSelected # 0
     /\ ~pdEdited
     /\ pdLastDone = "rendered")
        => /\ pdReport.data = pdLastSelected
           /\ pdReport.name \in ReportNames(pdLastSelected)

(***************************************************************************)
(* Zones page: deleteZone asks the server to delete the zone and removes   *)
(* it from the list and from the map whatever the answer is.               *)
(***************************************************************************)
\* the zones stored when the zones page is opened
NumStoredZones == 3
StoredZones == [i \in 1..NumStoredZones |-> [zone_id |-> i, name |-> <<"N">>]]
DeletableIds == ZoneIds(StoredZones)

\* prediction.js 1091: the zones whose String(zone_id) is not the target
WithoutZone_KeepsAll(list, targetId) == list
WithoutZone(list, targetId) == SelectSeq(list, LAMBDA z : z.zone_id # targetId)

\* prediction.js 1094-1098: the layers whose zoneData is not the target
WithoutLayer(layers, targetId) == layers \ {targetId}

\* prediction.js 685-702: the terrain layers of the zones map
TerrainTypes == {"dark", "satellite", "topo", "streets"}

\* prediction.js 767: `Changed monitoring view to ${type.toUpperCase()}`
ViewMessage(type) ==
    CASE type = "dark" -> "view_DARK"
      [] type = "satellite" -> "view_SATELLITE"
      [] type = "topo" -> "view_TOPO"
      [] OTHER -> "view_STREETS"

\* prediction.js 751-769: a terrain button; a type that has no layer
\* returns at 752
setTerrain(type) ==
    /\ IF type \in TerrainTypes
       THEN /\ currentLayerName' = type
            /\ lastToast' = showSuccess(ViewMessage(type))
       ELSE UNCHANGED <<currentLayerName, lastToast>>
    /\ UNCHANGED <<srvZones, zones, zoneLayers, editMode, deleteMode, hasGeolocation, NotTool>>

\* prediction.js 774-784: the draw button
startDrawing ==
    /\ editMode' = FALSE
    /\ deleteMode' = FALSE
    /\ UNCHANGED <<srvZones, zones, zoneLayers, lastToast, currentLayerName, hasGeolocation,
                   NotTool>>

\* prediction.js 789-797: the edit button
toggleEdit ==
    /\ editMode' = TRUE
    /\ deleteMode' = FALSE
    /\ lastToast' = showSuccess("click_zone_to_edit")
    /\ UNCHANGED <<srvZones, zones, zoneLayers, currentLayerName, hasGeolocation, NotTool>>

\* prediction.js 802-810: the delete button of the tool bar
toggleDelete ==
    /\ editMode' = FALSE
    /\ deleteMode' = TRUE
    /\ lastToast' = showSuccess("click_zone_to_delete")
    /\ UNCHANGED <<srvZones, zones, zoneLayers, currentLayerName, hasGeolocation, NotTool>>

\* prediction.js 960-964, 1053-1056: a click on a zone's polygon in edit
\* mode
editZone(id) ==
    /\ id \in zoneLayers
    /\ ~deleteMode /\ editMode
    /\ lastToast' = showSuccess("editing_coming_soon")
    /\ UNCHANGED <<srvZones, zones, zoneLayers, toolVars, NotTool>>

\* prediction.js 1132-1151: the locate button; the position is found
\* (the map moves), or refused, or the browser has no geolocation
locateMe(found) ==
    /\ lastToast' = IF ~hasGeolocation THEN showError("geolocation_not_supported")
                    ELSE IF found THEN lastToast
                    ELSE showError("unable_to_get_location")
    /\ UNCHANGED <<srvZones, zones, zoneLayers, toolVars, NotTool>>

\* prediction.js 1020, 960-962, 1061-1073: the delete button of a listed
\* zone, or a click on its polygon in delete mode, and the answer to
\* confirm()
deleteZone(id, confirmed) ==
    /\ id \in ZoneIds(zones) \/ (id \in zoneLayers /\ deleteMode)
    /\ delReq[id] = "none"
    /\ delReq' = IF confirmed THEN [delReq EXCEPT ![id] = "sent"] ELSE delReq
    /\ UNCHANGED <<srvZones, zones, zoneLayers, lastToast, NotDelete>>

\* DELETE /zones/{id} at the server: the zone is deleted, or there is none
ServerDeletesZone(id) ==
    /\ delReq[id] = "sent"
    /\ delReq' = [delReq EXCEPT ![id] = IF id \in ZoneIds(srvZones) THEN "ok" ELSE "not_found"]
    /\ srvZones' = WithoutZone(srvZones, id)
    /\ UNCHANGED <<zones, zoneLayers, lastToast, NotDelete>>

\* another operator's page deletes the zone at the server
ZoneDeletedByOther(id) ==
    /\ id \in ZoneIds(srvZones)
    /\ srvZones' = WithoutZone(srvZones, id)
    /\ UNCHANGED <<zones, zoneLayers, lastToast, delReq, NotDelete>>

\* prediction.js 1075-1101: the response is ok or 404
DeleteAnswered(id) ==
    /\ delReq[id] \in {"ok", "not_found"}
    /\ lastToast' = showSuccess("zone_decommissioned")
    /\ zones' = WithoutZone(zones, id)
    /\ zoneLayers' = WithoutLayer(zoneLayers, id)
    /\ delReq' = [delReq EXCEPT ![id] = "none"]
    /\ UNCHANGED <<srvZones, NotDelete>>

\* prediction.js 1075-1101: another error status, or fetch threw; the
\* server's zones stay as they are
DeleteFails(id, outcome) ==
    /\ delReq[id] = "sent"
    /\ lastToast' = showError("sync_failed_removing_locally")
    /\ zones' = WithoutZone(zones, id)
    /\ zoneLayers' = WithoutLayer(zoneLayers, id)
    /\ delReq' = [delReq EXCEPT ![id] = "none"]
    /\ UNCHANGED <<srvZones, NotDelete>>

ToolInit ==
    /\ editMode = FALSE
    /\ deleteMode = FALSE
    /\ currentLayerName = "dark"
    /\ hasGeolocation \in BOOLEAN
ToolIdle ==
    /\ editMode = FALSE
    /\ deleteMode = FALSE
    /\ currentLayerName = "dark"
    /\ hasGeolocation = TRUE

DeleteInit == delReq = [id \in DeletableIds |-> "none"]
DeleteIdle == DeleteInit

\* the zones page with its list loaded, its tool buttons and the deletions
NextDelete ==
    \/ initZonesPage
    \/ ServerAnswersInitLoad
    \/ InitLoadDone
    \/ \E id \in DeletableIds, confirmed \in BOOLEAN : deleteZone(id, confirmed)
    \/ \E id \in DeletableIds : ServerDeletesZone(id)
    \/ \E id \in DeletableIds : ZoneDeletedByOther(id)
    \/ \E id \in DeletableIds : DeleteAnswered(id)
    \/ \E id \in DeletableIds, outcome \in {"error_status", "unreachable"} :
          DeleteFails(id, outcome)
    \/ \E type \in TerrainTypes \cup {"other"} : setTerrain(type)
    \/ startDrawing
    \/ toggleEdit
    \/ toggleDelete
    \/ \E id \in DeletableIds : editZone(id)
    \/ \E found \in BOOLEAN : locateMe(found)

\* deleteZone(id) completes in this step
DeleteCompletes(id) ==
    \/ DeleteAnswered(id)
    \/ \E outcome \in {"error_status", "unreachable"} : DeleteFails(id, outcome)

\* C16: when a confirmed deleteZone(id) completes, whatever the answer,
\* zonesState.zones has no zone of that id and the map no layer of it,
\* and the zones and layers of every other id are kept as they were; a
\* declined confirmation sends nothing and changes nothing.
C16_DeleteRemovesOnlyTarget ==
    [][\A id \in DeletableIds :
          /\ DeleteCompletes(id) =>
                /\ id \notin ZoneIds(zones')
                /\ id \notin zoneLayers'
                /\ zones' = SelectSeq(zones, LAMBDA z : z.zone_id # id)
                /\ zoneLayers' = zoneLayers \ {id}
          /\ deleteZone(id, FALSE) => UNCHANGED vars]_vars

\* a deletion the server did not carry out has completed: the zone is gone
\* from the list and the map, the other zone is still there
C16_Witness ==
    \E id \in DeletableIds :
        /\ lastToast = showError("sync_failed_removing_locally")
        /\ delReq[id] = "none"
        /\ id \in ZoneIds(srvZones)
        /\ id \notin ZoneIds(zones) \cup zoneLayers
        /\ zones # <<>>
        /\ zoneLayers # {}

(***************************************************************************)
(* Alerts page: acknowledgeAll acknowledges the active alerts one after    *)
(* the other; every acknowledgement that succeeds reloads the page state.  *)
(***************************************************************************)
NoLoop == [stage |-> "idle", array |-> <<>>, next |-> 1]

\* prediction.js 1817: for...of takes its iterator from the array that
\* alertsPageState.activeAlerts holds when the loop starts; line 1373
\* assigns a new array and leaves that one as it was
IteratedArray_Current(captured) == pgActive
IteratedArray(captured) == captured

\* prediction.js 1807-1816: the button, the empty list and confirm()
acknowledgeAll(confirmed) ==
    /\ ackAll.stage = "idle"
    /\ IF pgActive = <<>>
       THEN /\ pgToast' = showError("no_active_alerts")
            /\ UNCHANGED ackAll
       ELSE /\ ackAll' = IF confirmed
                         THEN [stage |-> "running", array |-> pgActive, next |-> 1]
                         ELSE ackAll
            /\ UNCHANGED pgToast
    /\ UNCHANGED <<srvAlerts, srvZones, targetZone, pgZones, pgAllZoneNames, pgActive,
                   pgHistory, pgAllAlerts, pgPredictions, loads, ackReq, ackAllSent,
                   NotPageAckAll>>

\* prediction.js 1817-1818 and 1762-1774: the previous await has ended, the
\* iterator yields the next alert and its acknowledge request is sent
AckAllSends ==
    /\ ackAll.stage = "running"
    /\ ackReq.stage = "none"
    /\ ackAll.next <= Len(IteratedArray(ackAll.array))
    /\ ackReq' = [stage |-> "sent", alert |-> IteratedArray(ackAll.array)[ackAll.next]]
    /\ ackAllSent' = Append(ackAllSent, IteratedArray(ackAll.array)[ackAll.next])
    /\ ackAll' = [ackAll EXCEPT !.next = @ + 1]
    /\ UNCHANGED <<srvAlerts, srvZones, targetZone, pgZones, pgAllZoneNames, pgActive,
                   pgHistory, pgAllAlerts, pgPredictions, pgToast, loads, NotPageAckAll>>

\* prediction.js 1817-1820: the iterator is exhausted
AckAllEnds ==
    /\ ackAll.stage = "running"
    /\ ackReq.stage = "none"
    /\ ackAll.next > Len(IteratedArray(ackAll.array))
    /\ ackAll' = [ackAll EXCEPT !.stage = "done"]
    /\ UNCHANGED <<srvAlerts, srvZones, targetZone, pgZones, pgAllZoneNames, pgActive,
                   pgHistory, pgAllAlerts, pgPredictions, pgToast, loads, ackReq, ackAllSent,
                   NotPageAckAll>>

AckAllInit == ackAll = NoLoop /\ ackAllSent = <<>>
AckAllIdle == AckAllInit

AckAnswered == \E ok \in BOOLEAN : ServerHandlesAck(ok)

\* a refresh that started before acknowledgeAll goes on while the loop
\* runs; the server's alerts change by the loop's own acknowledgements
NextAckAll ==
    \/ (StartTimerLoad /\ ackAll.stage = "idle")
    \/ AnyFetchAnswered
    \/ \E l \in TimerLoads : TimerLoadDone(l)
    \/ \E confirmed \in BOOLEAN : acknowledgeAll(confirmed)
    \/ AckAllSends
    \/ AckAnswered
    \/ AckOk
    \/ AckLoadDone
    \/ AckFailed
    \/ AckAllEnds

\* every request of every loadAlerts is answered and every continuation
\* runs
AckAllFairness ==
    /\ \A l \in Loaders : WF_vars(LoadFetchAnswered(l))
    /\ \A l \in TimerLoads : WF_vars(TimerLoadDone(l))
    /\ WF_vars(AckAllSends)
    /\ WF_vars(AckAnswered)
    /\ WF_vars(AckOk)
    /\ WF_vars(AckLoadDone)
    /\ WF_vars(AckFailed)
    /\ WF_vars(AckAllEnds)

\* C18: a confirmed acknowledgeAll sends one acknowledge request for each
\* alert of the active list it was invoked with, in that order, each only
\* when the previous acknowledgement and its reload have ended, although
\* the reloads replace alertsPageState.activeAlerts; failed
\* acknowledgements do not stop it, and it terminates.  With an empty list
\* or a declined confirmation no request is sent.
C18_AcknowledgeAllCoversList ==
    /\ [](/\ ackAll.stage = "idle" => ackAllSent = <<>>
          /\ ackAll.stage = "running" =>
                ackAllSent = SubSeq(ackAll.array, 1, Len(ackAllSent))
          /\ ackAll.stage = "done" => ackAllSent = ackAll.array)
    /\ [][/\ AckAllSends => (ackReq.stage = "none" /\ loads[AckLoad].stage = "idle")
          /\ (ackAll.stage = "idle" /\ ackAll'.stage = "running") =>
                (ackAll'.array = pgActive /\ pgActive # <<>>)
          /\ \A confirmed \in BOOLEAN :
                (acknowledgeAll(confirmed) /\ (pgActive = <<>> \/ ~confirmed)) =>
                    UNCHANGED <<ackAll, ackAllSent, ackReq>>]_vars
    /\ (ackAll.stage = "running" ~> ackAll.stage = "done")

\* the loop has ended after a failed and a successful acknowledgement, and
\* the active list is no longer the one it was invoked with
C18_Witness ==
    /\ ackAll.stage = "done"
    /\ Len(ackAllSent) = 2
    /\ pgActive # ackAll.array
    /\ \E a \in Range(ackAll.array) : srvAlerts[a] = "ACTIVE"
    /\ \E a \in Range(ackAll.array) : srvAlerts[a] = "ACKNOWLEDGED"

(***************************************************************************)
(* Location search: fetchSuggestions aborts the request of the previous    *)
(* call, shows the loading state and later the outcome of its own fetch.   *)
(***************************************************************************)
\* the calls of fetchSuggestions that are followed
MaxRequests == 3
RequestIds == 1 .. MaxRequests
Queries == {"ab", "abc"}

UnsentRequest == [stage |-> "unsent", query |-> ""]
EmptyBox == [kind |-> "none", query |-> "", by |-> 0, display |-> FALSE]

\* main.js 280-282: abort() of the previous controller; a fetch or a body
\* read that has not settled rejects with an AbortError, a settled one is
\* not affected
abort_Ignored(reqs, r) == reqs
abort(reqs, r) ==
    IF r # 0 /\ reqs[r].stage \in {"pending", "reading"}
    THEN [reqs EXCEPT ![r].stage = "aborted"]
    ELSE reqs

\* the next call is the first one not made yet
NextRequest == CHOOSE r \in RequestIds : /\ sgReqs[r].stage = "unsent"
                                         /\ \A q \in 1 .. (r - 1) : sgReqs[q].stage # "unsent"

\* main.js 276-301: the debounce timer calls fetchSuggestions(query)
fetchSuggestions(query) ==
    /\ \E r \in RequestIds : sgReqs[r].stage = "unsent"
    /\ sgReqs' = [abort(sgReqs, sgController) EXCEPT
                     ![NextRequest] = [stage |-> "pending", query |-> query]]
    /\ sgController' = NextRequest
    /\ sgBox' = [kind |-> "loading", query |-> query, by |-> NextRequest, display |-> TRUE]
    /\ UNCHANGED NotSuggest

\* main.js 296-303: the response is there and it is ok; its body is read
ResponseOk(r) ==
    /\ sgReqs[r].stage = "pending"
    /\ sgReqs' = [sgReqs EXCEPT ![r].stage = "reading"]
    /\ UNCHANGED <<sgController, sgBox, NotSuggest>>

\* main.js 303, 393-404: the response is not ok, fetch rejected for another
\* reason than an abort, or the body is not JSON
SearchFails(r) ==
    /\ sgReqs[r].stage \in {"pending", "reading"}
    /\ sgReqs' = [sgReqs EXCEPT ![r].stage = "failed"]
    /\ sgBox' = [sgBox EXCEPT !.kind = "unavailable", !.query = sgReqs[r].query, !.by = r]
    /\ UNCHANGED <<sgController, NotSuggest>>

\* main.js 305-367: the body is read, the suggestions or the 'No locations
\* found' note are shown
SuggestionsShown(r, found) ==
    /\ sgReqs[r].stage = "reading"
    /\ sgReqs' = [sgReqs EXCEPT ![r].stage = "done"]
    /\ sgBox' = [sgBox EXCEPT !.kind = IF found THEN "results" ELSE "not_found",
                              !.query = sgReqs[r].query, !.by = r]
    /\ UNCHANGED <<sgController, NotSuggest>>

\* main.js 393-394: the AbortError of an aborted request is ignored
AbortIgnored(r) ==
    /\ sgReqs[r].stage = "aborted"
    /\ sgReqs' = [sgReqs EXCEPT ![r].stage = "ignored"]
    /\ UNCHANGED <<sgController, sgBox, NotSuggest>>

\* main.js 618-623: a click outside, Escape, Enter or a short query
hideSuggestions ==
    /\ sgBox.display
    /\ sgBox' = [sgBox EXCEPT !.display = FALSE]
    /\ UNCHANGED <<sgReqs, sgController, NotSuggest>>

SuggestInit ==
    /\ sgReqs = [r \in RequestIds |-> UnsentRequest]
    /\ sgController = 0
    /\ sgBox = EmptyBox
SuggestIdle == SuggestInit

NextSuggest ==
    \/ \E query \in Queries : fetchSuggestions(query)
    \/ \E r \in RequestIds : ResponseOk(r)
    \/ \E r \in RequestIds : SearchFails(r)
    \/ \E r \in RequestIds, found \in BOOLEAN : SuggestionsShown(r, found)
    \/ \E r \in RequestIds : AbortIgnored(r)
    \/ hideSuggestions

\* C19: once a newer call of fetchSuggestions has started, nothing an older
\* call's fetch does changes the suggestions box: what the box shows was
\* written by the latest call, and a step of an older call leaves the box
\* as it is.
C19_BoxShowsLatestQuery ==
    /\ [](sgBox.kind # "none" =>
            /\ sgBox.by = sgController
            /\ sgBox.query = sgReqs[sgController].query)
    /\ [][\A r \in RequestIds :
            (r # sgController /\ sgReqs'[r] # sgReqs[r] /\ sgController' = sgController)
                => sgBox' = sgBox]_vars

\* the first request was aborted by the second call and its AbortError
\* ignored; the box shows the second call's results
C19_Witness ==
    /\ sgReqs[1].stage = "ignored"
    /\ sgReqs[2].stage = "done"
    /\ sgController = 2
    /\ sgBox.kind = "results"
    /\ sgBox.by = 2

ToolsIdle == ToolIdle /\ PageToolIdle
ExtraIdle == PromoIdle /\ PredIdle /\ DeleteIdle /\ AckAllIdle /\ SuggestIdle /\ ToolsIdle

(***************************************************************************)
(* Specifications, one per page.                                           *)
(***************************************************************************)
InitCard == CardInit /\ RiskIdle /\ MapIdle /\ DashIdle /\ ZoneIdle /\ PageIdle /\ AlertsIdle /\ DispatchIdle /\ ExtraIdle
SpecCard == InitCard /\ [][NextCard]_vars

InitRisk == CardIdle /\ RiskInit /\ MapIdle /\ DashIdle /\ ZoneIdle /\ PageIdle /\ AlertsIdle /\ DispatchIdle /\ ExtraIdle
SpecRisk == InitRisk /\ [][NextRisk]_vars

InitMap == CardIdle /\ RiskIdle /\ MapInit /\ DashIdle /\ ZoneIdle /\ PageIdle /\ AlertsIdle /\ DispatchIdle /\ ExtraIdle
SpecMap == InitMap /\ [][NextMap]_vars

InitDash == CardIdle /\ RiskIdle /\ MapIdle /\ DashInit /\ ZoneIdle /\ PageIdle /\ AlertsIdle /\ DispatchIdle /\ ExtraIdle
SpecDash == InitDash /\ [][NextDash]_vars

InitZone == CardIdle /\ RiskIdle /\ MapIdle /\ DashIdle /\ ZoneInit /\ PageIdle /\ AlertsIdle /\ DispatchIdle /\ ExtraIdle
SpecZones == InitZone /\ [][NextZone]_vars
\* the alerts page opened without a zone in the URL
InitPage == CardIdle /\ RiskIdle /\ MapIdle /\ DashIdle /\ PageInit /\ AlertsIdle /\ DispatchIdle /\ ExtraIdle
            /\ targetZone = NoTarget
            /\ zones = <<>> /\ zoneLayers = {} /\ draftLayers = {} /\ currentZone = NoDraft
            /\ zoneForm = FormCleared /\ saveBtn = [disabled |-> FALSE, label |-> SaveLabel]
            /\ lastToast = NoToast /\ savePc = "idle" /\ saveReq = NoRequest
            /\ initLoad = NoLoad /\ saveLoad = NoLoad
SpecPage == InitPage /\ [][NextPage]_vars

InitAlerts == CardIdle /\ RiskIdle /\ MapIdle /\ DashIdle /\ ZoneIdle /\ AlertsInit /\ DispatchIdle /\ ExtraIdle
              /\ targetZone = NoTarget /\ pgZones = <<>> /\ pgAllZoneNames = <<>>
              /\ pgActive = <<>> /\ pgHistory = <<>> /\ pgAllAlerts = <<>>
              /\ pgPredictions = <<>> /\ pgToast = NoToast
              /\ loads = [l \in Loaders |-> IdleLoad] /\ ackReq = NoAck
SpecAlerts == InitAlerts /\ [][NextAlerts]_vars
SpecAlertModal == InitAlerts /\ [][NextAlertModal]_vars

InitDispatch == CardIdle /\ RiskIdle /\ MapIdle /\ DashIdle /\ ZoneIdle /\ PageIdle
                /\ AlertsIdle /\ DispatchInit /\ ExtraIdle
SpecDispatch == InitDispatch /\ [][NextDispatch]_vars

InitPromo == CardIdle /\ RiskIdle /\ MapIdle /\ DashIdle /\ ZoneIdle /\ PageIdle
             /\ AlertsIdle /\ DispatchIdle /\ PromoInit /\ PredIdle /\ DeleteIdle /\ AckAllIdle /\ SuggestIdle
             /\ ToolsIdle
SpecPromo == InitPromo /\ [][NextPromo]_vars

InitPred == CardIdle /\ RiskIdle /\ MapIdle /\ DashIdle /\ ZoneIdle /\ PageIdle
            /\ AlertsIdle /\ DispatchIdle /\ PromoIdle /\ PredInit /\ DeleteIdle /\ AckAllIdle /\ SuggestIdle
            /\ ToolsIdle
SpecPred == InitPred /\ [][NextPred]_vars

InitDelete == CardIdle /\ RiskIdle /\ MapIdle /\ DashIdle /\ PageIdle /\ AlertsIdle
              /\ DispatchIdle /\ PromoIdle /\ PredIdle /\ DeleteInit /\ AckAllIdle /\ SuggestIdle
              /\ ToolInit /\ PageToolIdle
              /\ srvZones = StoredZones
              /\ zones = <<>> /\ zoneLayers = {} /\ draftLayers = {} /\ currentZone = NoDraft
              /\ zoneForm = FormCleared /\ saveBtn = [disabled |-> FALSE, label |-> SaveLabel]
              /\ lastToast = NoToast /\ savePc = "idle" /\ saveReq = NoRequest
              /\ initLoad = NoLoad /\ saveLoad = NoLoad
SpecDelete == InitDelete /\ [][NextDelete]_vars

InitAckAll == CardIdle /\ RiskIdle /\ MapIdle /\ DashIdle /\ PageInit /\ AlertsIdle /\ targetZone = NoTarget
              /\ DispatchIdle /\ PromoIdle /\ PredIdle /\ DeleteIdle /\ AckAllInit /\ SuggestIdle
              /\ ToolsIdle
              /\ zones = <<>> /\ zoneLayers = {} /\ draftLayers = {} /\ currentZone = NoDraft
              /\ zoneForm = FormCleared /\ saveBtn = [disabled |-> FALSE, label |-> SaveLabel]
              /\ lastToast = NoToast /\ savePc = "idle" /\ saveReq = NoRequest
              /\ initLoad = NoLoad /\ saveLoad = NoLoad
SpecAckAll == InitAckAll /\ [][NextAckAll]_vars /\ AckAllFairness

InitSuggest == CardIdle /\ RiskIdle /\ MapIdle /\ DashIdle /\ ZoneIdle /\ PageIdle
               /\ AlertsIdle /\ DispatchIdle /\ PromoIdle /\ PredIdle /\ DeleteIdle
               /\ AckAllIdle /\ SuggestInit /\ ToolsIdle
SpecSuggest == InitSuggest /\ [][NextSuggest]_vars

====
